---------------------------- MODULE Spec2Model ----------------------------
(***************************************************************************)
(* CTProto server (src/src/server/server.ts, second CTProtoServer class,   *)
(* lines 455-958), its clients registry (clientsList.ts), the message      *)
(* validator with buffer support (src/unnamed/part_015) and the message    *)
(* factory (messageFactory.ts).                                            *)
(*                                                                         *)
(* Observation points are the ones the repository's tests use: the calls   *)
(* the server makes on a socket (socket.send, socket.close: the ws mock's  *)
(* socketSend and socketClose) and the calls it makes on the application   *)
(* handlers (onAuth, onMessage, onUploadMessage).                          *)
(*                                                                         *)
(* A JS string is a TLA+ string.  A text frame is represented by what      *)
(* JSON.parse makes of it (a JSON value, or a SyntaxError); a Buffer is    *)
(* the sequence of its bytes.                                              *)
(***************************************************************************)
EXTENDS Naturals, Integers, Sequences, FiniteSets, TLC

(***************************************************************************)
(* Bounds of the model.                                                    *)
(***************************************************************************)
\* frames received by the server, over all connections
MaxFrames == 3
MaxUploadFrames == 4
\* longest step of the clock, in ms (a step never jumps over a timer)
TickMs == 1500
\* calls of the client's send() by the application
MaxSends == 2
\* calls of the client's sendFile() by the application
MaxUploads == 1
\* frames the client receives, over all its connections
MaxInbound == 3
\* sockets the client creates, the constructor's one included
MaxSockets == 3
\* fires of one file's resend timer where reconnections and uploads are mixed
MaxResends == 1
\* sockets the client creates where only its reconnecting is followed
MaxReconnectSockets == 7
\* calls of clients.find(...).send(...) by the application
MaxBroadcasts == 2

Sockets == {"s1", "s2"}

(***************************************************************************)
(* JSON values                                                             *)
(***************************************************************************)
JUndefined == [t |-> "undefined"]
JNull == [t |-> "null"]
JStr(s) == [t |-> "string", s |-> s]
JNum(n) == [t |-> "number", n |-> n]
JObj(r) == [t |-> "object", o |-> r]
JArr(items) == [t |-> "array", a |-> items]
\* what JSON.parse throws: a SyntaxError with the engine's message
JSyntaxError(m) == [t |-> "syntaxerror", m |-> m]

\* the JS typeof operator
TypeOf(x) ==
  CASE x.t = "undefined" -> "undefined"
    [] x.t \in {"null", "object", "array"} -> "object"
    [] OTHER -> x.t

\* x[field] of JS, for a parsed JSON value other than null
Get(x, field) ==
  IF x.t = "object" /\ field \in DOMAIN x.o THEN x.o[field] ELSE JUndefined

RECURSIVE Jsonified(_)
\* a value as JSON.parse reads it back from the text JSON.stringify makes of it:
\* members that are undefined are dropped, elements that are undefined become null
Jsonified(x) ==
  CASE x.t = "object" ->
         JObj([k \in {m \in DOMAIN x.o : x.o[m].t # "undefined"} |-> Jsonified(x.o[k])])
    [] x.t = "array" ->
         JArr([i \in 1..Len(x.a) |->
                 IF x.a[i].t = "undefined" THEN JNull ELSE Jsonified(x.a[i])])
    [] OTHER -> x

\* JSON.stringify of an object, read back: members that are undefined are dropped
Stringify(r) ==
  LET keep == {k \in DOMAIN r : r[k].t # "undefined"}
  IN  JObj([k \in keep |-> Jsonified(r[k])])

(***************************************************************************)
(* messageFactory.ts                                                       *)
(***************************************************************************)
idLength == 10

\* the ids nanoid(10) hands out in the model
NanoIds == {"srvGenId01"}

\* MessageFactory.respond
respond(messageId, payload) ==
  [kind |-> "string", json |-> Stringify([messageId |-> messageId, payload |-> payload])]

\* MessageFactory.createError
createError(error, id) ==
  [kind |-> "string",
   json |-> Stringify([type |-> JStr("error"),
                       payload |-> JObj([error |-> JStr(error)]),
                       messageId |-> JStr(id)])]

\* MessageFactory.create leaving the messageId out
createWithoutId(type, payload, id) ==
  [kind |-> "string", json |-> Stringify([type |-> type, payload |-> payload])]

\* MessageFactory.create
create(type, payload, id) ==
  [kind |-> "string",
   json |-> Stringify([type |-> type, payload |-> payload, messageId |-> JStr(id)])]

(***************************************************************************)
(* Buffers                                                                 *)
(***************************************************************************)
Min(a, b) == IF a < b THEN a ELSE b
Max(a, b) == IF a > b THEN a ELSE b

\* printable ASCII: codes 32 (space) to 95 (_), and codes 97 (a) to 126 (~)
AsciiLow == " !\"#$%&'()*+,-./0123456789:;<=>?@ABCDEFGHIJKLMNOPQRSTUVWXYZ[\\]^_"
AsciiHigh == "abcdefghijklmnopqrstuvwxyz{|}~"

\* the character of a byte; a byte that is none of these decodes to a
\* character that is in no JSON text and in no id of the model
CharOf(b) ==
  IF b >= 32 /\ b <= 95 THEN SubSeq(AsciiLow, b - 31, b - 31)
  ELSE IF b >= 97 /\ b <= 126 THEN SubSeq(AsciiHigh, b - 96, b - 96)
  ELSE "?"

\* TextEncoder.encode of one character
CodeOf(c) == CHOOSE b \in (32..95) \cup (97..126) : CharOf(b) = c

RECURSIVE BufToString(_)
\* Buffer.toString()
BufToString(bytes) ==
  IF bytes = <<>> THEN "" ELSE CharOf(Head(bytes)) \o BufToString(Tail(bytes))

\* TextEncoder.encode
Encode(str) == [i \in 1..Len(str) |-> CodeOf(SubSeq(str, i, i))]

\* an index argument of Buffer.slice, clamped to the buffer as JS does
ClampIndex(i, len) == IF i < 0 THEN Max(len + i, 0) ELSE Min(i, len)

\* Buffer.slice(start, end), 0-based, end exclusive
Slice(buf, start, end) ==
  LET a == ClampIndex(start, Len(buf))
      b == ClampIndex(end, Len(buf))
  IN  IF b <= a THEN <<>> ELSE SubSeq(buf, a + 1, b)

\* Buffer.slice(start)
SliceFrom(buf, start) == Slice(buf, start, Len(buf))

\* the top byte of a 32-bit integer, read as signed
SignedByte(b) == IF b >= 128 THEN b - 256 ELSE b

\* whether buf.readInt32BE(offset) / readInt32LE(offset) is inside the buffer
InBounds(buf, offset) == offset >= 0 /\ offset + 4 <= Len(buf)

\* Buffer.readInt32BE(offset), for an offset inside the buffer
readInt32BE(buf, offset) ==
  SignedByte(buf[offset + 1]) * 16777216 + buf[offset + 2] * 65536
  + buf[offset + 3] * 256 + buf[offset + 4]

\* Buffer.readInt32LE(offset), for an offset inside the buffer
readInt32LE(buf, offset) ==
  SignedByte(buf[offset + 4]) * 16777216 + buf[offset + 3] * 65536
  + buf[offset + 2] * 256 + buf[offset + 1]

\* offset + size of JS, kept inside the 32 bits of TLC's integers:
\* no buffer is that long, so a slice at the sum is the same slice
AddOffset(offset, size) ==
  IF size > 2147483647 - offset THEN 2147483647 ELSE offset + size

\* Buffer.alloc(n): n zero bytes
Alloc(n) == [i \in 1..n |-> 0]

\* source.copy(target, targetStart): the target after the copy
CopyInto(source, target, targetStart) ==
  [i \in 1..Len(target) |->
     IF i > targetStart /\ i - targetStart <= Len(source)
     THEN source[i - targetStart] ELSE target[i]]

\* the bytes of new Uint32Array([n]).buffer on a little-endian machine
UInt32LEBytes(n) ==
  <<n % 256, (n \div 256) % 256, (n \div 65536) % 256, (n \div 16777216) % 256>>

\* MessageFactory.packChunk
packChunk(fileId, chunkNumber, size, bufData, message) ==
  Encode(fileId) \o UInt32LEBytes(chunkNumber) \o UInt32LEBytes(size)
  \o bufData \o Encode(message)

(***************************************************************************)
(* The frames the model feeds the server                                   *)
(***************************************************************************)
\* payloads
AuthRequestPayload == JObj([token |-> JStr("T")])
EmptyPayload == JObj(<<>>)
FilePayload == JObj([name |-> JStr("f")])

\* {type:"authorize", messageId:"abcdefghij", payload:{token:"T"}}
TAuthorize ==
  [kind |-> "string",
   json |-> JObj([messageId |-> JStr("abcdefghij"), type |-> JStr("authorize"),
                  payload |-> AuthRequestPayload])]

\* {type:"ping", messageId:"0123456789", payload:{}}
TPing ==
  [kind |-> "string",
   json |-> JObj([messageId |-> JStr("0123456789"), type |-> JStr("ping"),
                  payload |-> EmptyPayload])]

\* 'some string but not a JSON'
TNotJSON == [kind |-> "string", json |-> JSyntaxError("Unexpected token s in JSON at position 0")]

\* {"foo":"bar"}
TFooBar == [kind |-> "string", json |-> JObj([foo |-> JStr("bar")])]

\* a message whose id is too short
TBadId ==
  [kind |-> "string",
   json |-> JObj([messageId |-> JStr("short"), type |-> JStr("ping"),
                  payload |-> EmptyPayload])]

\* new ArrayBuffer(0): neither a string nor a Buffer
NonText == [kind |-> "arraybuffer"]

\* the JSON texts that occur after the header of a chunk, with their values
SidecarOneChunk == "{\"type\":\"store\",\"payload\":{\"name\":\"f\"},\"chunks\":1,\"messageId\":\"chunkMsg00\"}"

\* the sidecar of chunk 0 of a file of two chunks, and the sidecar of a later chunk
SidecarFirstOfTwo == "{\"type\":\"store\",\"payload\":{\"name\":\"f\"},\"chunks\":2,\"messageId\":\"chunkMsg01\"}"
SidecarNext == "{\"messageId\":\"chunkMsg02\"}"

JSONTexts ==
  (SidecarOneChunk :>
     JObj([type |-> JStr("store"), payload |-> FilePayload, chunks |-> JNum(1),
           messageId |-> JStr("chunkMsg00")]))
  @@ (SidecarFirstOfTwo :>
     JObj([type |-> JStr("store"), payload |-> FilePayload, chunks |-> JNum(2),
           messageId |-> JStr("chunkMsg01")]))
  @@ (SidecarNext :> JObj([messageId |-> JStr("chunkMsg02")]))

\* JSON.parse of a string
JSONParse(text) ==
  IF text \in DOMAIN JSONTexts THEN JSONTexts[text]
  ELSE IF text = "" THEN JSyntaxError("Unexpected end of JSON input")
  ELSE JSyntaxError("Unexpected token in JSON at position 0")

\* a binary frame with fewer bytes than the 18-byte header
BShort == [kind |-> "buffer", bytes |-> <<97, 98, 99, 100, 101>>]

\* the only chunk of an empty file: chunk 0, dataSize 0, sidecar {type, payload, chunks: 1, messageId}
BOnlyChunk ==
  [kind |-> "buffer", bytes |-> packChunk("fileId0001", 0, 0, <<>>, SidecarOneChunk)]

\* the two chunks of an empty file sent as two chunks: dataSize 0 each
BFirstOfTwo ==
  [kind |-> "buffer", bytes |-> packChunk("fileId0002", 0, 0, <<>>, SidecarFirstOfTwo)]
BSecondOfTwo ==
  [kind |-> "buffer", bytes |-> packChunk("fileId0002", 1, 0, <<>>, SidecarNext)]

\* the two chunks of a file of three bytes sent as two chunks: 2 bytes, then 1 byte
BTwoBytes ==
  [kind |-> "buffer",
   bytes |-> packChunk("fileId0003", 0, 2, <<65, 66>>, SidecarFirstOfTwo)]
BLastByte ==
  [kind |-> "buffer", bytes |-> packChunk("fileId0003", 1, 1, <<67>>, SidecarNext)]

\* the chunk frames of an upload that carries file data
DataFrames == {BTwoBytes, BLastByte}

\* the chunk frames of two uploads
UploadFrames == {BOnlyChunk, BFirstOfTwo, BSecondOfTwo}

InputFrames == {TAuthorize, TPing, TNotJSON, TFooBar, NonText, BShort, BOnlyChunk}

(***************************************************************************)
(* errors.ts and the validator (src/unnamed/part_015)                      *)
(***************************************************************************)
Valid == [ok |-> TRUE]
\* MessageParseError extends CriticalError
MessageParseError(m) == [ok |-> FALSE, critical |-> TRUE, message |-> m]
\* MessageFormatError extends NonCriticalError
MessageFormatError(m) == [ok |-> FALSE, critical |-> FALSE, message |-> m]
\* a TypeError or RangeError of the runtime: an Error that is no CriticalError
RuntimeError(m) == [ok |-> FALSE, critical |-> FALSE, message |-> m]

IdChars == "ABCDEFGHIJKLMNOPQRSTUVWXYZabcdefghijklmnopqrstuvwxyz0123456789_-"
IdAlphabet == {SubSeq(IdChars, i, i) : i \in 1..Len(IdChars)}

\* MessageValidator.isIdValid
isIdValid(messageId) ==
  /\ Len(messageId) = idLength
  /\ \A i \in 1..Len(messageId) : SubSeq(messageId, i, i) \in IdAlphabet

requiredMessageFields == <<"messageId", "type", "payload">>
fieldTypes ==
  << [name |-> "messageId", type |-> "string"],
     [name |-> "type", type |-> "string"],
     [name |-> "payload", type |-> "object"] >>

SetMin(S) == CHOOSE m \in S : \A k \in S : m <= k

\* MessageValidator.validateMessage: Valid, or the error it throws
validateMessage(message) ==
  IF message.kind # "string" THEN MessageParseError("Unsupported data")
  ELSE
    LET parsedMessage == message.json
        missed == {i \in 1..3 : Get(parsedMessage, requiredMessageFields[i]).t = "undefined"}
        wrong == {i \in 1..3 :
                    TypeOf(Get(parsedMessage, fieldTypes[i].name)) # fieldTypes[i].type}
    IN  IF parsedMessage.t = "syntaxerror" THEN MessageParseError(parsedMessage.m)
        ELSE IF parsedMessage.t = "null"
          THEN RuntimeError("Cannot read properties of null (reading 'messageId')")
        ELSE IF missed # {}
          THEN MessageFormatError("'" \o requiredMessageFields[SetMin(missed)] \o "' field missed")
        ELSE IF wrong # {}
          THEN LET f == fieldTypes[SetMin(wrong)]
               IN  MessageFormatError("'" \o f.name \o "' should be "
                                      \o (IF f.type = "object" THEN "an" ELSE "a")
                                      \o " " \o f.type)
        ELSE IF ~isIdValid(Get(parsedMessage, "messageId").s)
          THEN MessageFormatError("Invalid message id")
        ELSE Valid

fileIdLength == 10
chunkNumberOffset == 10
sizeOffset == 14
sizeDataLength == 4
dataOffset == sizeOffset + sizeDataLength

Digits == <<"0", "1", "2", "3", "4", "5", "6", "7", "8", "9">>

RECURSIVE NatToString(_)
\* String(n) for a natural number
NatToString(n) ==
  IF n < 10 THEN Digits[n + 1] ELSE NatToString(n \div 10) \o Digits[(n % 10) + 1]

\* the RangeError of Buffer.readInt32BE for an offset outside the buffer
boundsError(value, length) ==
  IF length < 0 THEN RuntimeError("Attempt to access memory outside buffer bounds")
  ELSE RuntimeError("The value of \"offset\" is out of range. It must be >= 0 and <= "
                    \o NatToString(length) \o ". Received " \o NatToString(value))

\* MessageValidator.validateBufferMessage: Valid, or the error it throws
validateBufferMessage(message) ==
  IF message.kind # "buffer" THEN MessageParseError("Unsupported data")
  ELSE
    LET buf == message.bytes
        fileId == BufToString(Slice(buf, 0, fileIdLength))
        size == readInt32BE(buf, sizeOffset)
        strPayload == BufToString(SliceFrom(buf, AddOffset(dataOffset, size)))
        parsed == JSONParse(strPayload)
    IN  IF ~InBounds(buf, sizeOffset) THEN boundsError(sizeOffset, Len(buf) - 4)
        ELSE IF parsed.t = "syntaxerror" THEN MessageParseError(parsed.m)
        ELSE IF ~isIdValid(fileId) THEN MessageFormatError("Invalid file id")
        ELSE Valid

\* a chunk frame as handleBufferMessage reads it (server.ts:759-774)
ParsedChunk(message) ==
  LET size == readInt32LE(message, sizeOffset)
  IN  [fileId |-> BufToString(Slice(message, 0, fileIdLength)),
       chunkNumber |-> readInt32LE(message, chunkNumberOffset),
       size |-> size,
       fileChunk |-> Slice(message, dataOffset, AddOffset(dataOffset, size)),
       payload |-> JSONParse(BufToString(SliceFrom(message, AddOffset(dataOffset, size))))]

(***************************************************************************)
(* closeEvent.ts (CloseEventCode)                                          *)
(***************************************************************************)
NormalClosure == 1000
UnsupportedData == 1003
PolicyViolation == 1008
TryAgainLater == 1013

(***************************************************************************)
(* clientsList.ts: the registry, as operators on its two fields            *)
(***************************************************************************)
NoCursor == [set |-> FALSE]
Cursor(items) == [set |-> TRUE, items |-> items]
NoClient == [none |-> TRUE]

\* ClientsList.add
add(list, client) == Append(list, client)

\* ClientsList.find with the callback (c) => c.socket === socket
findBySocket(list, socket) == Cursor(SelectSeq(list, LAMBDA c : c.socket = socket))

\* ClientsList.current
current(cur) == IF ~cur.set \/ cur.items = <<>> THEN NoClient ELSE cur.items[1]

\* Array.indexOf, 1-based; 0 when absent
IndexOf(list, x) ==
  IF \E i \in 1..Len(list) : list[i] = x
  THEN SetMin({i \in 1..Len(list) : list[i] = x}) ELSE 0

\* Array.splice(index, 1), index 1-based
SpliceOne(list, i) == SubSeq(list, 1, i - 1) \o SubSeq(list, i + 1, Len(list))

RECURSIVE RemoveEach(_, _)
\* the forEach of ClientsList.remove: each found client is spliced out if it is still listed
RemoveEach(list, found) ==
  IF found = <<>> THEN list
  ELSE LET index == IndexOf(list, Head(found))
       IN  RemoveEach(IF index > 0 THEN SpliceOne(list, index) ELSE list, Tail(found))

RECURSIVE SpliceEach(_, _)
\* the forEach of ClientsList.remove without its test `index > -1`:
\* splice(-1, 1) takes the last client out of the list
SpliceEach(list, found) ==
  IF found = <<>> THEN list
  ELSE LET index == IndexOf(list, Head(found))
       IN  SpliceEach(SpliceOne(list, IF index > 0 THEN index ELSE Len(list)), Tail(found))

\* ClientsList.remove that splices for every found client, listed or not
removeSplicingUnlisted(list, cur) == IF ~cur.set THEN list ELSE SpliceEach(list, cur.items)

\* ClientsList.remove that empties the list
removeEverything(list, cur) == IF ~cur.set THEN list ELSE <<>>

\* ClientsList.remove: the list after it
remove(list, cur) == IF ~cur.set THEN list ELSE RemoveEach(list, cur.items)

\* ClientsList.close / ClientsList.remove: the clients whose socket.close() is called
closed(cur) == IF ~cur.set THEN <<>> ELSE cur.items

(***************************************************************************)
(* The application's handlers: what they may return or throw               *)
(***************************************************************************)
AuthDatas == {JObj([userId |-> JStr("u1")])}
ErrorMessages == {"No user found"}
ResponsePayloads == {JObj([path |-> JStr("/tmp/f")])}

Returned(v) == [kind |-> "returned", value |-> v]
Threw(m) == [kind |-> "threw", message |-> m]
NoOutcome == [kind |-> "none"]

OnAuthOutcomes == {Returned(a) : a \in AuthDatas} \cup {Threw(m) : m \in ErrorMessages}
OnMessageOutcomes ==
  {Returned(JUndefined)} \cup {Returned(p) : p \in ResponsePayloads}
  \cup {Threw(m) : m \in ErrorMessages}

\* !x of JS
Falsy(x) ==
  \/ x.t \in {"undefined", "null"}
  \/ x.t = "number" /\ x.n = 0
  \/ x.t = "string" /\ x.s = ""
  \/ x.t = "boolean" /\ ~x.b

(***************************************************************************)
(* CTProtoClient (src/unnamed/part_014, the class with sendFile): its      *)
(* methods as operators on the client `c`, a record of the object's fields *)
(* (socket, requests, enqueuedMessages, enqueuedBufferMessages,            *)
(* uploadingFiles, reconnectionTimer, reconnectionAttempts) and of what    *)
(* the client did: the promises it made, the frames it handed to           *)
(* socket.send, the calls of the options' hooks, the errors nobody caught. *)
(* A method that throws leaves the Error's message in c.thrown.            *)
(***************************************************************************)
chunkSize == 10000
reconnectionTimeout == 5000
reconnectionAttempts == 5
chunkResendingTimeout == 5000

JBool(b) == [t |-> "boolean", b |-> b]

\* the k-th id nanoid(idLength) hands out to the client
createMessageId(k) ==
  IF k < 10 THEN "cliGenId0" \o NatToString(k) ELSE "cliGenId" \o NatToString(k)

\* MessageFactory.createFileId, for the k-th file
createFileId(k) ==
  IF k < 10 THEN "fileGnId0" \o NatToString(k) ELSE "fileGnId" \o NatToString(k)

\* MessageFactory.createChunkMessage: the JSON text, read back
createChunkMessage(type, payload, chunks, id) ==
  Stringify([type |-> type, payload |-> payload, chunks |-> chunks, messageId |-> JStr(id)])

\* a Uint8Array cut from a file: the file's bytes [from, to), then `zeros` zero bytes
Bytes(from, to, zeros) == [from |-> from, to |-> to, zeros |-> zeros]
ByteLength(b) == (b.to - b.from) + b.zeros

\* fileData.slice(start, end) of a file of `length` bytes
SliceOfFile(length, start, end) ==
  LET a == ClampIndex(start, length)
      b == ClampIndex(end, length)
  IN  Bytes(a, Max(a, b), 0)

\* new Uint8Array(n) followed by set(data), for data of at most n bytes
ZeroFilled(n, data) == [data EXCEPT !.zeros = n - (data.to - data.from)]

\* calculateChunksNumber: Math.ceil(file.length / this.chunkSize)
calculateChunksNumber(length) == (length + chunkSize - 1) \div chunkSize

\* the frame MessageFactory.packChunk lays out, by its regions: the file id at 0,
\* chunkNumber at 10, size at 14, bufData at 18, the message after it
packedChunk(fileId, chunkNumber, size, bufData, message) ==
  [kind |-> "chunk", fileId |-> fileId, chunkNumber |-> chunkNumber, size |-> size,
   data |-> bufData, message |-> message]

NoTimer == [armed |-> FALSE]
NoError == ""

\* the client when its constructor returns: init() has created the first socket
Constructed ==
  [socket |-> [n |-> 1, readyState |-> "CONNECTING", init |-> "pending", awaited |-> FALSE],
   requests |-> <<>>,
   enqueuedMessages |-> <<>>,
   enqueuedBufferMessages |-> <<>>,
   uploadingFiles |-> <<>>,
   reconnectionTimer |-> NoTimer,
   reconnectionAttempts |-> reconnectionAttempts,
   ids |-> 0,
   thrown |-> NoError,
   promises |-> <<>>,
   emitted |-> <<>>,
   hooks |-> <<>>,
   files |-> <<>>,
   received |-> [count |-> 0],
   uncaught |-> <<>>]

\* new Promise(...): the promise gets the next token
NewPromise(c, kind) ==
  [c EXCEPT !.promises = Append(@, [kind |-> kind, socket |-> c.socket.n, state |-> "pending",
                                    value |-> JUndefined, calls |-> 0])]

\* socket.send(frame)
Emit(c, frame) ==
  [c EXCEPT !.emitted = Append(@, [socket |-> c.socket.n, frame |-> frame])]

\* a call of options.onAuth or options.onMessage, with what the client had sent
\* and what it had queued when it made the call
Hook(c, hook, arg) ==
  [c EXCEPT !.hooks = Append(@, [hook |-> hook, arg |-> arg, socket |-> c.socket.n,
                                  emitted |-> Len(c.emitted),
                                  texts |-> Len(c.enqueuedMessages),
                                  chunks |-> Len(c.enqueuedBufferMessages)])]

\* init(): this.socket = new WebSocket(apiUrl); `awaited` tells whether reconnect()
\* awaits the promise init returns (the constructor drops it)
init(c, awaited) ==
  [c EXCEPT !.socket = [n |-> @.n + 1, readyState |-> "CONNECTING", init |-> "pending",
                        awaited |-> awaited]]

\* reconnect() up to `await this.init()`
reconnect(c, isForcedCall) ==
  IF c.reconnectionTimer.armed /\ ~isForcedCall THEN c
  ELSE init([c EXCEPT !.reconnectionTimer = NoTimer], TRUE)

\* the catch block of reconnect(), once init's promise is rejected
reconnectCatch(c) ==
  LET left == c.reconnectionAttempts - 1
  IN  [c EXCEPT !.reconnectionAttempts = left,
                !.reconnectionTimer =
                   IF left = 0 THEN @ ELSE [armed |-> TRUE, left |-> reconnectionTimeout]]

\* send(type, payload, callback), callback being the resolver of promise `callback`
send(c, type, payload, callback) ==
  LET id == createMessageId(c.ids)
      message == create(JStr(type), payload, id)
  IN  IF c.socket.readyState # "OPEN"
      THEN LET queued == [c EXCEPT !.enqueuedMessages =
                            Append(@, [type |-> type, payload |-> payload,
                                       callback |-> callback])]
           IN  IF c.socket.readyState = "CLOSED" THEN reconnect(queued, FALSE) ELSE queued
      ELSE [Emit(c, message) EXCEPT
              !.requests = Append(@, [messageId |-> Get(message.json, "messageId").s,
                                      cb |-> callback]),
              !.ids = @ + 1]

\* 1-based index of the uploading file with this id; 0 when there is none
getUploadingFileById(files, fileId) ==
  IF \E i \in 1..Len(files) : files[i].id = fileId
  THEN SetMin({i \in 1..Len(files) : files[i].id = fileId}) ELSE 0

\* sendChunk(file, chunkNumber, message), file being the uploading file with this id
sendChunk(c, id, chunkNumber, message) ==
  LET i == getUploadingFileById(c.uploadingFiles, id)
      file == c.uploadingFiles[i]
      chunkOffset == chunkNumber * chunkSize
      dataOfFile == SliceOfFile(file.fileData.length, chunkOffset, chunkOffset + chunkSize)
      chunk == ZeroFilled(chunkSize, dataOfFile)
      bufferMessage == packedChunk(file.id, chunkNumber, ByteLength(chunk), chunk, message)
  IN  IF file.resendTimes > c.reconnectionAttempts
      THEN [c EXCEPT !.uploadingFiles = SpliceOne(@, i),
                     !.thrown = "There is no response from server to "
                                \o NatToString(file.resendTimes)
                                \o " attempts to send chunk"]
      ELSE IF c.socket.readyState # "OPEN"
      THEN [c EXCEPT !.enqueuedBufferMessages =
                        Append(@, [fileId |-> file.id, chunkNumber |-> chunkNumber,
                                   message |-> message])]
      ELSE [Emit(c, bufferMessage) EXCEPT
              !.uploadingFiles[i].responseWaitingTimeoutId =
                 [armed |-> TRUE, left |-> chunkResendingTimeout,
                  chunkNumber |-> chunkNumber, message |-> message]]

\* resolve(value) of promise `token`: the first call settles the promise
Resolve(c, token, value) ==
  [c EXCEPT !.promises[token] =
     [@ EXCEPT !.calls = @ + 1,
               !.state = IF @ = "pending" THEN "fulfilled" ELSE @,
               !.value = IF c.promises[token].state = "pending" THEN value ELSE @]]

\* sendFile(type, file, payload) after `await file.arrayBuffer()`, for a file of
\* `length` bytes; an Error thrown inside the promise's executor rejects the promise
sendFile(c, type, length, payload) ==
  LET made == NewPromise(c, "sendFile")
      callback == Len(made.promises)
      fileId == createFileId(callback)
      chunks == calculateChunksNumber(length)
      uploadingFile == [id |-> fileId, fileData |-> [length |-> length], cb |-> callback,
                        resendTimes |-> 0, responseWaitingTimeoutId |-> NoTimer]
      message == createChunkMessage(JStr(type), payload, JNum(chunks), createMessageId(c.ids))
      pushed == [made EXCEPT !.uploadingFiles = Append(@, uploadingFile), !.ids = @ + 1,
                             !.files = Append(@, [id |-> fileId, length |-> length,
                                                  cb |-> callback])]
      after == sendChunk(pushed, fileId, 0, message)
  IN  IF after.thrown # NoError
      THEN [after EXCEPT !.promises[callback].state = "rejected", !.thrown = NoError]
      ELSE after

\* onChunkResponseMessage(fileId, chunkNumber, isUploaded, payload), for a chunkNumber
\* that is a number
onChunkResponseMessage(c, fileId, chunkNumber, isUploaded, payload) ==
  LET i == IF fileId.t = "string" THEN getUploadingFileById(c.uploadingFiles, fileId.s) ELSE 0
      uploadingFile == c.uploadingFiles[i]
      reset == [c EXCEPT !.uploadingFiles[i].resendTimes = 0,
                         !.uploadingFiles[i].responseWaitingTimeoutId = NoTimer]
  IN  IF i = 0
      THEN [c EXCEPT !.thrown = "Couldn't proceed the chunk response because the file "
                                \o (IF fileId.t = "string" THEN fileId.s ELSE fileId.t)
                                \o " is not exist"]
      ELSE IF ~Falsy(isUploaded)
      THEN [Resolve(reset, uploadingFile.cb, payload) EXCEPT !.uploadingFiles = SpliceOne(@, i)]
      ELSE sendChunk([reset EXCEPT !.ids = @ + 1], uploadingFile.id, chunkNumber.n + 1,
                     createChunkMessage(JUndefined, JUndefined, JUndefined,
                                        createMessageId(c.ids)))

RECURSIVE sendEnqueuedMessages(_)
\* sendEnqueuedMessages: each queued message is shifted out and handed to send()
sendEnqueuedMessages(c) ==
  IF c.enqueuedMessages = <<>> THEN c
  ELSE LET messageToSend == Head(c.enqueuedMessages)
       IN  sendEnqueuedMessages(send([c EXCEPT !.enqueuedMessages = Tail(@)],
                                     messageToSend.type, messageToSend.payload,
                                     messageToSend.callback))

RECURSIVE sendEnqueuedBufferMessages(_)
\* sendEnqueuedBufferMessages: each queued chunk whose file is still uploading is
\* handed to sendChunk(); an Error of sendChunk ends the loop
sendEnqueuedBufferMessages(c) ==
  IF c.enqueuedBufferMessages = <<>> THEN c
  ELSE LET enqueuedChunk == Head(c.enqueuedBufferMessages)
           shifted == [c EXCEPT !.enqueuedBufferMessages = Tail(@)]
           file == getUploadingFileById(shifted.uploadingFiles, enqueuedChunk.fileId)
           next == IF file > 0
                   THEN sendChunk(shifted, enqueuedChunk.fileId, enqueuedChunk.chunkNumber,
                                  enqueuedChunk.message)
                   ELSE shifted
       IN  IF next.thrown # NoError THEN next ELSE sendEnqueuedBufferMessages(next)

\* the callback of onopen with the two flushes exchanged: the queued chunks first
authorizedFlushingChunksFirst(c, token, responsePayload) ==
  LET told == Hook(c, "onAuth", responsePayload)
      chunks == IF Len(told.enqueuedBufferMessages) > 0
                THEN sendEnqueuedBufferMessages(told) ELSE told
      texts == IF chunks.thrown = NoError /\ Len(chunks.enqueuedMessages) > 0
               THEN sendEnqueuedMessages(chunks) ELSE chunks
  IN  IF texts.thrown # NoError
      THEN [texts EXCEPT !.uncaught = Append(@, texts.thrown), !.thrown = NoError]
      ELSE [texts EXCEPT !.socket.init =
              IF c.promises[token].socket = c.socket.n /\ @ = "pending"
              THEN "resolved" ELSE @]

\* the callback of onopen telling options.onAuth after the two flushes
authorizedTellingOnAuthLast(c, token, responsePayload) ==
  LET texts == IF Len(c.enqueuedMessages) > 0 THEN sendEnqueuedMessages(c) ELSE c
      chunks == IF Len(texts.enqueuedBufferMessages) > 0
                THEN sendEnqueuedBufferMessages(texts) ELSE texts
      told == Hook(chunks, "onAuth", responsePayload)
  IN  IF chunks.thrown # NoError
      THEN [chunks EXCEPT !.uncaught = Append(@, chunks.thrown), !.thrown = NoError]
      ELSE [told EXCEPT !.socket.init =
              IF c.promises[token].socket = c.socket.n /\ @ = "pending"
              THEN "resolved" ELSE @]

\* the callback onopen chains to send('authorize', ...), run when promise `token` is
\* fulfilled; an Error it throws is an unhandled rejection
authorized(c, token, responsePayload) ==
  LET told == Hook(c, "onAuth", responsePayload)
      texts == IF Len(told.enqueuedMessages) > 0 THEN sendEnqueuedMessages(told) ELSE told
      chunks == IF Len(texts.enqueuedBufferMessages) > 0
                THEN sendEnqueuedBufferMessages(texts) ELSE texts
  IN  IF chunks.thrown # NoError
      THEN [chunks EXCEPT !.uncaught = Append(@, chunks.thrown), !.thrown = NoError]
      ELSE [chunks EXCEPT !.socket.init =
              IF c.promises[token].socket = c.socket.n /\ @ = "pending"
              THEN "resolved" ELSE @]

\* 1-based index of the first request with this messageId; 0 when there is none
FindRequest(requests, messageId) ==
  LET hits == {i \in 1..Len(requests) : JStr(requests[i].messageId) = messageId}
  IN  IF hits = {} THEN 0 ELSE SetMin(hits)

\* onMessage(event), event.data being a text frame; what the try block throws is logged
onMessage(c, data) ==
  LET message == data.json
      messageId == Get(message, "messageId")
      handled ==
        IF message.t = "syntaxerror" THEN [c EXCEPT !.thrown = message.m]
        ELSE IF "fileId" \in DOMAIN message.o
          THEN onChunkResponseMessage(c, Get(message, "fileId"), Get(message, "chunkNumber"),
                                      Get(message, "isUploaded"), Get(message, "payload"))
        ELSE IF "type" \in DOMAIN message.o THEN Hook(c, "onMessage", message)
        ELSE c
      request == FindRequest(handled.requests, messageId)
      callback == handled.requests[request].cb
      called == Resolve(handled, callback, Get(message, "payload"))
  IN  IF handled.thrown # NoError THEN [handled EXCEPT !.thrown = NoError]
      ELSE IF request = 0 THEN handled
      ELSE IF handled.promises[callback].state = "pending"
              /\ handled.promises[callback].kind = "authorize"
      THEN authorized(called, callback, Get(message, "payload"))
      ELSE called

(***************************************************************************)
(* State                                                                   *)
(***************************************************************************)
VARIABLES
  ready,          \* per socket: the transport's state (IDLE before the connection)
  msgWaiter,      \* per socket: the authorization timer
  age,            \* per socket: ms since the connection opened, while msgWaiter is armed
  frames,         \* per socket: the frames received, each with how far its handling got
  microtasks,     \* continuations of onmessage waiting behind its first await
  clients,        \* ClientsList.clients
  cursor,         \* ClientsList.cursor
  uploadingFiles, \* CTProtoServer.uploadingFiles
  timers,         \* the armed upload timers
  sent,           \* per socket: the socket.send() calls
  closeCalls,     \* per socket: the socket.close() calls
  invoked,        \* per socket: the calls of onAuth, onMessage, onUploadMessage
  broadcasts,     \* the application's calls of clients.find(...).send(...)
  theClient,      \* a CTProtoClient: its fields, and what it did on its socket and hooks
  evaluated       \* a function of the protocol under study: its arguments and its result

serverVars == <<ready, msgWaiter, age, frames, microtasks, clients, cursor,
                uploadingFiles, timers, sent, closeCalls, invoked>>

vars == <<serverVars, broadcasts, theClient, evaluated>>

msgWaitingTime == 3000
chunkWaitingTimeout == 15000

SocketIndex == [s1 |-> 1, s2 |-> 2]

\* no function is under study
NotEvaluated == [fn |-> "none"]

\* the server and the client as their constructors leave them
Constructions ==
  /\ ready = [s \in Sockets |-> "IDLE"]
  /\ msgWaiter = [s \in Sockets |-> [armed |-> FALSE, left |-> 0]]
  /\ age = [s \in Sockets |-> 0]
  /\ frames = [s \in Sockets |-> <<>>]
  /\ microtasks = <<>>
  /\ clients = <<>>
  /\ cursor = NoCursor
  /\ uploadingFiles = <<>>
  /\ timers = {}
  /\ sent = [s \in Sockets |-> <<>>]
  /\ closeCalls = [s \in Sockets |-> <<>>]
  /\ invoked = [s \in Sockets |-> <<>>]
  /\ broadcasts = <<>>
  /\ theClient = Constructed

Init ==
  /\ Constructions
  /\ evaluated = NotEvaluated

TotalFrames == Len(frames["s1"]) + Len(frames["s2"])

\* the server has received fewer than `limit` frames
FramesBelow(limit) == TotalFrames < limit

\* ws emits 'close' right after 'error' (it destroys the socket in the same turn):
\* nothing else is delivered between the two events
Quiet == \A s \in Sockets : ready[s] # "ERRORED"

\* a frame as the server first sees it
NewFrame(data) ==
  [data |-> data, status |-> "queued", route |-> "none", handler |-> "none",
   outcome |-> NoOutcome, file |-> <<>>]

\* the frames log with frame n of socket s marked
Mark(s, n, status, route, handler) ==
  [frames EXCEPT ![s][n].status = status, ![s][n].route = route,
                 ![s][n].handler = handler]

\* socket.send(msg), called for frame `cause` (0: for no frame)
SocketSend(log, s, cause, msg) ==
  [log EXCEPT ![s] = Append(@, [cause |-> cause, msg |-> msg, open |-> ready[s] = "OPEN"])]

\* socket.close(code, reason), called for frame `cause` (0: by a timer or by the registry)
SocketClose(log, s, cause, code, reason) ==
  [log EXCEPT ![s] = Append(@, [cause |-> cause, code |-> code, reason |-> reason,
                                state |-> ready[s], age |-> age[s],
                                fresh |-> frames[s] = <<>>])]

\* the transport after socket.close(): an open socket starts its closing handshake
Closing(s) == [ready EXCEPT ![s] = IF @ = "OPEN" THEN "CLOSING" ELSE @]

\* a call of an application handler
Invoke(s, n, handler, arg) ==
  [invoked EXCEPT ![s] = Append(@, [cause |-> n, handler |-> handler, arg |-> arg])]

\* the connection handler arming msgWaiter with the server's other timeout
ConnectWaitingLonger(s) ==
  /\ Quiet
  /\ microtasks = <<>>
  /\ ready[s] = "IDLE"
  /\ \A o \in Sockets : SocketIndex[o] < SocketIndex[s] => ready[o] # "IDLE"
  /\ ready' = [ready EXCEPT ![s] = "OPEN"]
  /\ msgWaiter' = [msgWaiter EXCEPT ![s] = [armed |-> TRUE, left |-> chunkWaitingTimeout]]
  /\ UNCHANGED <<age, frames, microtasks, clients, cursor, uploadingFiles, timers,
                 sent, closeCalls, invoked>>
  /\ UNCHANGED <<broadcasts, theClient, evaluated>>

(***************************************************************************)
(* wsServer.on('connection')                                               *)
(***************************************************************************)
Connect(s) ==
  /\ Quiet
  /\ microtasks = <<>>
  /\ ready[s] = "IDLE"
  /\ \A o \in Sockets : SocketIndex[o] < SocketIndex[s] => ready[o] # "IDLE"
  /\ ready' = [ready EXCEPT ![s] = "OPEN"]
  /\ msgWaiter' = [msgWaiter EXCEPT ![s] = [armed |-> TRUE, left |-> msgWaitingTime]]
  /\ UNCHANGED <<age, frames, microtasks, clients, cursor, uploadingFiles, timers,
                 sent, closeCalls, invoked>>
  /\ UNCHANGED <<broadcasts, theClient, evaluated>>

\* the msgWaiter callback
MsgWaiterFire(s) ==
  /\ Quiet
  /\ microtasks = <<>>
  /\ msgWaiter[s].armed
  /\ msgWaiter[s].left = 0
  /\ msgWaiter' = [msgWaiter EXCEPT ![s] = [armed |-> FALSE, left |-> 0]]
  /\ closeCalls' = SocketClose(closeCalls, s, 0, TryAgainLater, "Authorization required")
  /\ ready' = Closing(s)
  /\ UNCHANGED <<age, frames, microtasks, clients, cursor, uploadingFiles, timers,
                 sent, invoked>>
  /\ UNCHANGED <<broadcasts, theClient, evaluated>>

\* isFileTransportMessage
isFileTransportMessage(data) == data.kind = "buffer"

\* the validation at the head of onmessage
Validate(data) ==
  IF ~isFileTransportMessage(data) THEN validateMessage(data)
  ELSE validateBufferMessage(data)

\* onmessage whose catch closes the connection on every validation error
onmessageClosingOnAnyError(s, data) ==
  /\ Quiet
  /\ ready[s] \in {"OPEN", "CLOSING"}
  /\ \A i \in 1..Len(microtasks) : microtasks[i].socket = s
  /\ msgWaiter' = [msgWaiter EXCEPT ![s] = [armed |-> FALSE, left |-> 0]]
  /\ LET n == Len(frames[s]) + 1
         error == Validate(data)
         frame == NewFrame(data)
     IN \/ /\ error.ok
           /\ frames' = [frames EXCEPT ![s] = Append(@, frame)]
           /\ microtasks' = Append(microtasks, [socket |-> s, n |-> n])
           /\ UNCHANGED <<ready, sent, closeCalls>>
        \/ /\ ~error.ok
           /\ frames' = [frames EXCEPT ![s] =
                           Append(@, [frame EXCEPT !.status = "done",
                                        !.route = IF error.critical THEN "critical" ELSE "format"])]
           /\ closeCalls' = SocketClose(closeCalls, s, n, UnsupportedData, error.message)
           /\ ready' = Closing(s)
           /\ UNCHANGED <<microtasks, sent>>
  /\ UNCHANGED <<age, clients, cursor, uploadingFiles, timers, invoked>>
  /\ UNCHANGED <<broadcasts, theClient, evaluated>>

\* socket.on('message') and onmessage up to its first await: the timer is cleared,
\* the frame is validated; an invalid frame is answered here, a valid one
\* continues in a microtask
onmessage(s, data) ==
  /\ Quiet
  /\ ready[s] \in {"OPEN", "CLOSING"}
  /\ \A i \in 1..Len(microtasks) : microtasks[i].socket = s
  /\ msgWaiter' = [msgWaiter EXCEPT ![s] = [armed |-> FALSE, left |-> 0]]
  /\ LET n == Len(frames[s]) + 1
         error == Validate(data)
         frame == NewFrame(data)
     IN \/ /\ error.ok
           /\ frames' = [frames EXCEPT ![s] = Append(@, frame)]
           /\ microtasks' = Append(microtasks, [socket |-> s, n |-> n])
           /\ UNCHANGED <<ready, sent, closeCalls>>
        \/ /\ ~error.ok
           /\ error.critical
           /\ frames' = [frames EXCEPT ![s] =
                           Append(@, [frame EXCEPT !.status = "done", !.route = "critical"])]
           /\ closeCalls' = SocketClose(closeCalls, s, n, UnsupportedData, error.message)
           /\ ready' = Closing(s)
           /\ UNCHANGED <<microtasks, sent>>
        \/ /\ ~error.ok
           /\ ~error.critical
           /\ frames' = [frames EXCEPT ![s] =
                           Append(@, [frame EXCEPT !.status = "done", !.route = "format"])]
           /\ \E id \in NanoIds :
                sent' = SocketSend(sent, s, n,
                                   createError("Message Format Error: " \o error.message, id))
           /\ UNCHANGED <<microtasks, ready, closeCalls>>
  /\ UNCHANGED <<age, clients, cursor, uploadingFiles, timers, invoked>>
  /\ UNCHANGED <<broadcasts, theClient, evaluated>>

(***************************************************************************)
(* The three handlers of onmessage, each up to its await and after it      *)
(***************************************************************************)
\* new Client(socket, authData); `of` tells the objects apart
Client(socket, authData, of) == [socket |-> socket, authData |-> authData, of |-> of]

\* handleFirstMessage without the `return` that follows the close
handleFirstMessageFallingThrough(s, n, message) ==
  /\ IF Get(message, "type") # JStr("authorize")
     THEN /\ closeCalls' = SocketClose(closeCalls, s, n, PolicyViolation, "Unauthorized")
          /\ ready' = Closing(s)
     ELSE UNCHANGED <<closeCalls, ready>>
  /\ invoked' = Invoke(s, n, "onAuth", Get(message, "payload"))
  /\ frames' = Mark(s, n, "pending", "first", "onAuth")
  /\ UNCHANGED <<sent, clients, uploadingFiles, timers>>

\* handleFirstMessage up to `await this.options.onAuth(...)`
handleFirstMessage(s, n, message) ==
  IF Get(message, "type") # JStr("authorize")
  THEN /\ closeCalls' = SocketClose(closeCalls, s, n, PolicyViolation, "Unauthorized")
       /\ ready' = Closing(s)
       /\ frames' = Mark(s, n, "done", "first", "none")
       /\ UNCHANGED <<invoked, sent, clients, uploadingFiles, timers>>
  ELSE /\ invoked' = Invoke(s, n, "onAuth", Get(message, "payload"))
       /\ frames' = Mark(s, n, "pending", "first", "onAuth")
       /\ UNCHANGED <<closeCalls, ready, sent, clients, uploadingFiles, timers>>

\* handleFirstMessage that saves the client before it awaits onAuth's promise
handleFirstMessageResumeSavingFirst(s, n, outcome) ==
  LET message == frames[s][n].data.json
      clientToSave == Client(s, IF outcome.kind = "returned" THEN outcome.value ELSE JUndefined,
                             <<s, n>>)
  IN  /\ outcome \in OnAuthOutcomes
      /\ clients' = add(clients, clientToSave)
      /\ IF outcome.kind = "returned"
         THEN /\ sent' = SocketSend(sent, clientToSave.socket, n,
                                    respond(Get(message, "messageId"), outcome.value))
              /\ UNCHANGED <<closeCalls, ready>>
         ELSE /\ closeCalls' = SocketClose(closeCalls, s, n, PolicyViolation,
                                           "Authorization failed: " \o outcome.message)
              /\ ready' = Closing(s)
              /\ UNCHANGED sent
      /\ UNCHANGED <<uploadingFiles, timers>>

\* handleFirstMessage after onAuth settled
handleFirstMessageResume(s, n, outcome) ==
  LET message == frames[s][n].data.json
  IN  /\ outcome \in OnAuthOutcomes
      /\ IF outcome.kind = "returned"
         THEN LET clientToSave == Client(s, outcome.value, <<s, n>>)
              IN  /\ clients' = add(clients, clientToSave)
                  /\ sent' = SocketSend(sent, clientToSave.socket, n,
                                        respond(Get(message, "messageId"), outcome.value))
                  /\ UNCHANGED <<closeCalls, ready>>
         ELSE /\ closeCalls' = SocketClose(closeCalls, s, n, PolicyViolation,
                                           "Authorization failed: " \o outcome.message)
              /\ ready' = Closing(s)
              /\ UNCHANGED <<clients, sent>>
      /\ UNCHANGED <<uploadingFiles, timers>>

\* handleAuthorizedMessage up to `await this.options.onMessage(message)`
handleAuthorizedMessage(s, n, message) ==
  IF Get(message, "type") = JStr("authorize")
  THEN /\ frames' = Mark(s, n, "done", "authorized", "none")
       /\ UNCHANGED <<invoked, closeCalls, ready, sent, clients, uploadingFiles, timers>>
  ELSE /\ invoked' = Invoke(s, n, "onMessage", message)
       /\ frames' = Mark(s, n, "pending", "authorized", "onMessage")
       /\ UNCHANGED <<closeCalls, ready, sent, clients, uploadingFiles, timers>>

\* handleAuthorizedMessage without `if (!response) return`
handleAuthorizedMessageResumeAlwaysResponding(s, n, outcome) ==
  LET message == frames[s][n].data.json
  IN  /\ outcome \in OnMessageOutcomes
      /\ IF outcome.kind = "returned"
         THEN sent' = SocketSend(sent, s, n, respond(Get(message, "messageId"), outcome.value))
         ELSE UNCHANGED sent
      /\ UNCHANGED <<closeCalls, ready, clients, uploadingFiles, timers>>

\* handleAuthorizedMessage whose catch answers with an error message
handleAuthorizedMessageResumeReportingErrors(s, n, outcome) ==
  LET message == frames[s][n].data.json
  IN  /\ outcome \in OnMessageOutcomes
      /\ IF outcome.kind = "returned" /\ ~Falsy(outcome.value)
         THEN sent' = SocketSend(sent, s, n, respond(Get(message, "messageId"), outcome.value))
         ELSE IF outcome.kind = "threw"
         THEN \E id \in NanoIds : sent' = SocketSend(sent, s, n, createError(outcome.message, id))
         ELSE UNCHANGED sent
      /\ UNCHANGED <<closeCalls, ready, clients, uploadingFiles, timers>>

\* handleAuthorizedMessage after onMessage settled
handleAuthorizedMessageResume(s, n, outcome) ==
  LET message == frames[s][n].data.json
  IN  /\ outcome \in OnMessageOutcomes
      /\ IF outcome.kind = "returned" /\ ~Falsy(outcome.value)
         THEN sent' = SocketSend(sent, s, n, respond(Get(message, "messageId"), outcome.value))
         ELSE UNCHANGED sent
      /\ UNCHANGED <<closeCalls, ready, clients, uploadingFiles, timers>>

\* updateFileData: the new file.file
updateFileData(fileData, chunkSlice, fileChunk) ==
  IF Len(fileData) < chunkSlice + Len(fileChunk)
  THEN CopyInto(fileChunk, CopyInto(fileData, Alloc(chunkSlice + Len(fileChunk)), 0), chunkSlice)
  ELSE CopyInto(fileChunk, fileData, chunkSlice)

\* isFileFullyUploaded
isFileFullyUploaded(file) ==
  IF Falsy(file.chunks) THEN FALSE
  ELSE IF file.chunks.t = "number"
    THEN \A i \in 0..(file.chunks.n - 1) : i \in file.uploadedChunks
  ELSE TRUE

\* 1-based index of the first slot with this id; 0 when there is none
FindFile(files, fileId) ==
  IF \E i \in 1..Len(files) : files[i].id = fileId
  THEN SetMin({i \in 1..Len(files) : files[i].id = fileId}) ELSE 0

\* file.uploadingWaitingTimeoutId = setTimeout(...) on the slot object `uid`,
\* wherever it is in the list (it may have been spliced out meanwhile)
SetTimeoutId(files, uid, id) ==
  [i \in 1..Len(files) |->
     IF files[i].uid = uid THEN [files[i] EXCEPT !.uploadingWaitingTimeoutId = id]
     ELSE files[i]]

NewTimer(id, uid) == [id |-> id, file |-> uid, left |-> chunkWaitingTimeout]

\* handleBufferMessage up to `await this.options.onUploadMessage(parsedFile)`,
\* or to its end when the file is not complete; what it throws is logged by onmessage
handleBufferMessage(s, n, message) ==
  LET fileId == BufToString(Slice(message, 0, fileIdLength))
      chunkNumber == readInt32LE(message, chunkNumberOffset)
      size == readInt32LE(message, sizeOffset)
      fileChunk == Slice(message, dataOffset, AddOffset(dataOffset, size))
      strPayload == BufToString(SliceFrom(message, AddOffset(dataOffset, size)))
      payload == JSONParse(strPayload)
      chunkOffset == size * chunkNumber
      index == FindFile(uploadingFiles, fileId)
      first == [chunks |-> Get(payload, "chunks"), payload |-> Get(payload, "payload"),
                type |-> Get(payload, "type")]
      created == [uid |-> <<s, n>>, id |-> fileId, uploadedChunks |-> {},
                  file |-> CopyInto(fileChunk, Alloc(Len(fileChunk) + chunkOffset), chunkOffset),
                  chunks |-> IF chunkNumber = 0 THEN first.chunks ELSE JUndefined,
                  payload |-> IF chunkNumber = 0 THEN first.payload ELSE JUndefined,
                  type |-> IF chunkNumber = 0 THEN first.type ELSE JUndefined,
                  uploadingWaitingTimeoutId |-> <<>>]
      old == uploadingFiles[index]
      updated == [old EXCEPT
                    !.chunks = IF chunkNumber = 0 THEN first.chunks ELSE @,
                    !.type = IF chunkNumber = 0 THEN first.type ELSE @,
                    !.payload = IF chunkNumber = 0 THEN first.payload ELSE @,
                    !.file = updateFileData(@, chunkOffset, fileChunk)]
      file == LET f == IF index = 0 THEN created ELSE updated
              IN  [f EXCEPT !.uploadedChunks = @ \cup {chunkNumber}]
      files == IF index = 0 THEN Append(uploadingFiles, file)
               ELSE [uploadingFiles EXCEPT ![index] = file]
      armed == IF index = 0 THEN timers
               ELSE {t \in timers : t.id # old.uploadingWaitingTimeoutId}
      \* JSON.parse throws a SyntaxError, payload.chunks of null a TypeError
      parseThrows == payload.t \in {"syntaxerror", "null"}
      \* fileChunk.copy throws a RangeError for a negative targetStart
      copyThrows == chunkOffset < 0
  IN  IF parseThrows \/ copyThrows
      THEN /\ frames' = [Mark(s, n, "done", "buffer", "none") EXCEPT
                           ![s][n].outcome = Threw("handleBufferMessage")]
           /\ IF parseThrows \/ index = 0
              THEN UNCHANGED <<uploadingFiles, timers>>
              ELSE /\ uploadingFiles' =
                        [uploadingFiles EXCEPT ![index] = [updated EXCEPT !.file = old.file]]
                   /\ timers' = armed
           /\ UNCHANGED <<invoked, closeCalls, ready, sent, clients>>
      ELSE IF isFileFullyUploaded(file)
      THEN /\ invoked' = Invoke(s, n, "onUploadMessage",
                                [type |-> file.type, payload |-> file.payload, file |-> file.file])
           /\ frames' = [Mark(s, n, "pending", "buffer", "onUploadMessage") EXCEPT
                           ![s][n].file = file.uid]
           /\ uploadingFiles' = files
           /\ timers' = armed
           /\ UNCHANGED <<closeCalls, ready, sent, clients>>
      ELSE /\ sent' = SocketSend(sent, s, n,
                        respond(Get(payload, "id"),
                                Stringify([chunkNumber |-> JNum(chunkNumber),
                                           type |-> file.type,
                                           fileId |-> JStr(file.id)])))
           /\ frames' = [Mark(s, n, "done", "buffer", "none") EXCEPT ![s][n].file = file.uid]
           /\ uploadingFiles' = SetTimeoutId(files, file.uid, <<s, n>>)
           /\ timers' = armed \cup {NewTimer(<<s, n>>, file.uid)}
           /\ UNCHANGED <<invoked, closeCalls, ready, clients>>

\* handleBufferMessage after onUploadMessage settled
handleBufferMessageResume(s, n, outcome) ==
  LET fileId == BufToString(Slice(frames[s][n].data.bytes, 0, fileIdLength))
      uid == frames[s][n].file
  IN  /\ outcome \in OnMessageOutcomes
      /\ IF outcome.kind = "returned"
         THEN /\ sent' = SocketSend(sent, s, n, respond(JStr(fileId), outcome.value))
              /\ uploadingFiles' = SetTimeoutId(uploadingFiles, uid, <<s, n>>)
              /\ timers' = timers \cup {NewTimer(<<s, n>>, uid)}
         ELSE UNCHANGED <<sent, uploadingFiles, timers>>
      /\ UNCHANGED <<closeCalls, ready, clients>>

\* onmessage after the validation: the registry lookup and the handler chosen by it
onmessageResume ==
  /\ microtasks # <<>>
  /\ LET s == Head(microtasks).socket
         n == Head(microtasks).n
         data == frames[s][n].data
         found == findBySocket(clients, s)
         client == current(found)
     IN  /\ cursor' = found
         /\ IF client = NoClient
            THEN LET message == IF data.kind = "string" THEN data.json
                                ELSE JSONParse(BufToString(data.bytes))
                 IN  IF message.t = "syntaxerror"
                     THEN /\ frames' = [Mark(s, n, "done", "first", "none") EXCEPT
                                          ![s][n].outcome = Threw("JSON.parse")]
                          /\ UNCHANGED <<invoked, closeCalls, ready, sent, clients,
                                         uploadingFiles, timers>>
                     ELSE handleFirstMessage(s, n, message)
            ELSE IF data.kind = "buffer"
                 THEN handleBufferMessage(s, n, data.bytes)
                 ELSE handleAuthorizedMessage(s, n, data.json)
  /\ microtasks' = Tail(microtasks)
  /\ UNCHANGED <<msgWaiter, age>>
  /\ UNCHANGED <<broadcasts, theClient, evaluated>>

\* the promise of the handler awaited for frame n of socket s settles
Settle(s, n, outcome) ==
  /\ Quiet
  /\ microtasks = <<>>
  /\ n \in 1..Len(frames[s])
  /\ frames[s][n].status = "pending"
  /\ CASE frames[s][n].handler = "onAuth" -> handleFirstMessageResume(s, n, outcome)
       [] frames[s][n].handler = "onMessage" -> handleAuthorizedMessageResume(s, n, outcome)
       [] frames[s][n].handler = "onUploadMessage" -> handleBufferMessageResume(s, n, outcome)
  /\ frames' = [frames EXCEPT ![s][n].status = "done", ![s][n].outcome = outcome]
  /\ UNCHANGED <<msgWaiter, age, microtasks, cursor, invoked>>
  /\ UNCHANGED <<broadcasts, theClient, evaluated>>

(***************************************************************************)
(* Timers and the clock                                                    *)
(***************************************************************************)
\* the callback of an upload timer
UploadTimerFire(t) ==
  /\ Quiet
  /\ microtasks = <<>>
  /\ t \in timers
  /\ t.left = 0
  /\ timers' = timers \ {t}
  /\ LET at == IF \E i \in 1..Len(uploadingFiles) : uploadingFiles[i].uid = t.file
               THEN CHOOSE i \in 1..Len(uploadingFiles) : uploadingFiles[i].uid = t.file
               ELSE 0
     IN  uploadingFiles' =
           IF at > 0 THEN SpliceOne(uploadingFiles, at)
           ELSE IF uploadingFiles = <<>> THEN uploadingFiles
           ELSE SpliceOne(uploadingFiles, Len(uploadingFiles))
  /\ UNCHANGED <<ready, msgWaiter, age, frames, microtasks, clients, cursor,
                 sent, closeCalls, invoked>>
  /\ UNCHANGED <<broadcasts, theClient, evaluated>>

Due == {msgWaiter[s].left : s \in {o \in Sockets : msgWaiter[o].armed}}
       \cup {t.left : t \in timers}

\* time passes, never beyond the next timer that is due; while no authorization
\* timer runs the clock steps from one upload timer to the next
Tick ==
  /\ Quiet
  /\ microtasks = <<>>
  /\ Due # {}
  /\ 0 \notin Due
  /\ LET d == IF \E s \in Sockets : msgWaiter[s].armed
              THEN Min(TickMs, SetMin(Due)) ELSE SetMin(Due)
     IN  /\ msgWaiter' = [s \in Sockets |->
                            IF msgWaiter[s].armed
                            THEN [msgWaiter[s] EXCEPT !.left = @ - d] ELSE msgWaiter[s]]
         /\ age' = [s \in Sockets |-> IF msgWaiter[s].armed THEN age[s] + d ELSE age[s]]
         /\ timers' = {[t EXCEPT !.left = @ - d] : t \in timers}
  /\ UNCHANGED <<ready, frames, microtasks, clients, cursor, uploadingFiles,
                 sent, closeCalls, invoked>>
  /\ UNCHANGED <<broadcasts, theClient, evaluated>>

(***************************************************************************)
(* socket.on('close') and socket.on('error')                               *)
(***************************************************************************)
RECURSIVE CloseEach(_, _)
\* ClientsList.close: client.close() of each found client, i.e.
\* client.socket.close(NormalClosure, '')
CloseEach(log, found) ==
  IF found = <<>> THEN log
  ELSE CloseEach(SocketClose(log, Head(found).socket, 0, NormalClosure, ""), Tail(found))

\* onclose
onclose(s) ==
  LET found == findBySocket(clients, s)
  IN  /\ cursor' = found
      /\ closeCalls' = CloseEach(closeCalls, closed(found))
      /\ clients' = remove(clients, found)

\* onerror
onerror(s) ==
  LET found == findBySocket(clients, s)
  IN  /\ cursor' = found
      /\ closeCalls' = CloseEach(closeCalls, closed(found))
      /\ clients' = remove(clients, found)

\* the transport reports the end of the connection
CloseEvent(s) ==
  /\ microtasks = <<>>
  /\ ready[s] \in {"OPEN", "CLOSING", "ERRORED"}
  /\ ready' = [ready EXCEPT ![s] = "CLOSED"]
  /\ onclose(s)
  /\ UNCHANGED <<msgWaiter, age, frames, microtasks, uploadingFiles, timers, sent, invoked>>
  /\ UNCHANGED <<broadcasts, theClient, evaluated>>

\* the transport reports an error; its close event follows
ErrorEvent(s) ==
  /\ Quiet
  /\ microtasks = <<>>
  /\ ready[s] \in {"OPEN", "CLOSING"}
  /\ ready' = [ready EXCEPT ![s] = "ERRORED"]
  /\ onerror(s)
  /\ UNCHANGED <<msgWaiter, age, frames, microtasks, uploadingFiles, timers, sent, invoked>>
  /\ UNCHANGED <<broadcasts, theClient, evaluated>>

\* the first connection sends any of the frames, the second one is a regular peer
InputFramesOf(s) == IF s = "s1" THEN InputFrames ELSE {TAuthorize, BOnlyChunk}

Outcomes == OnAuthOutcomes \cup OnMessageOutcomes

Next ==
  \/ \E s \in Sockets : Connect(s)
  \/ \E s \in Sockets : MsgWaiterFire(s)
  \/ \E s \in Sockets : \E data \in InputFramesOf(s) :
       FramesBelow(MaxFrames) /\ onmessage(s, data)
  \/ onmessageResume
  \/ \E s \in Sockets, n \in 1..MaxFrames, outcome \in Outcomes : Settle(s, n, outcome)
  \/ \E t \in timers : UploadTimerFire(t)
  \/ Tick
  \/ \E s \in Sockets : CloseEvent(s)
  \/ \E s \in Sockets : ErrorEvent(s)

Spec == Init /\ [][Next]_vars

\* the uploads of one connection: it authorizes and sends chunks of two files in any
\* order, some of them again
ReassemblyNext ==
  \/ Connect("s1")
  \/ \E data \in {TAuthorize} \cup UploadFrames :
       FramesBelow(MaxUploadFrames) /\ onmessage("s1", data)
  \/ onmessageResume
  \/ \E n \in 1..MaxUploadFrames, outcome \in Outcomes : Settle("s1", n, outcome)
  \/ \E t \in timers : UploadTimerFire(t)
  \/ Tick

ReassemblySpec == Init /\ [][ReassemblyNext]_vars

\* the registry holds a client of socket s
Authorized(s) == current(findBySocket(clients, s)) # NoClient

\* the upload of a file with data: a connection authorizes and, once it is
\* authorized, sends the file's chunks in any order, some of them again
TransferNext ==
  \/ \E s \in Sockets : Connect(s)
  \/ \E s \in Sockets : FramesBelow(MaxUploadFrames) /\ onmessage(s, TAuthorize)
  \/ \E s \in Sockets : \E data \in DataFrames :
       FramesBelow(MaxUploadFrames) /\ Authorized(s) /\ onmessage(s, data)
  \/ onmessageResume
  \/ \E s \in Sockets, n \in 1..MaxUploadFrames, outcome \in Outcomes : Settle(s, n, outcome)

TransferSpec == Init /\ [][TransferNext]_vars

\* the uploads of two connections: each authorizes and, once it is authorized,
\* sends chunks of the two files; a connection may close at any time
ConnectionsNext ==
  \/ \E s \in Sockets : Connect(s)
  \/ \E s \in Sockets : FramesBelow(MaxUploadFrames) /\ onmessage(s, TAuthorize)
  \/ \E s \in Sockets : \E data \in UploadFrames :
       FramesBelow(MaxUploadFrames) /\ Authorized(s) /\ onmessage(s, data)
  \/ onmessageResume
  \/ \E s \in Sockets, n \in 1..MaxUploadFrames, outcome \in Outcomes : Settle(s, n, outcome)
  \/ \E s \in Sockets : CloseEvent(s)

ConnectionsSpec == Init /\ [][ConnectionsNext]_vars

\* the text frames a connection may send before it is authorized
TextFrames == {TAuthorize, TPing, TFooBar, TNotJSON}

\* one connection that sends text frames, or none, and may close
AuthorizationWaitNext ==
  \/ Connect("s1")
  \/ MsgWaiterFire("s1")
  \/ \E data \in TextFrames : FramesBelow(MaxFrames) /\ onmessage("s1", data)
  \/ onmessageResume
  \/ \E n \in 1..MaxFrames, outcome \in Outcomes : Settle("s1", n, outcome)
  \/ Tick
  \/ CloseEvent("s1")

\* the event loop runs every timer callback that is due and every continuation that
\* is ready, time passes, and the application's handlers return; the peer is not
\* obliged to send or to close
AuthorizationWaitSpec ==
  /\ Init
  /\ [][AuthorizationWaitNext]_vars
  /\ WF_vars(Tick)
  /\ WF_vars(MsgWaiterFire("s1"))
  /\ WF_vars(onmessageResume)
  /\ WF_vars(\E n \in 1..MaxFrames, outcome \in Outcomes : Settle("s1", n, outcome))

(***************************************************************************)
(* The application's use of the registry:                                  *)
(* transport.clients.find(queryCallback).send(type, payload)               *)
(***************************************************************************)
\* the query callbacks of the application: by the user of authData, by socket
Predicates ==
  {[by |-> "userId", userId |-> u] : u \in {"u1", "u2"}}
  \cup {[by |-> "socket", socket |-> s] : s \in Sockets}

\* queryCallback(client)
Matches(pred, client) ==
  IF pred.by = "userId"
  THEN Get(client.authData, "userId") = JStr(pred.userId)
  ELSE client.socket = pred.socket

\* ClientsList.find
find(list, pred) == Cursor(SelectSeq(list, LAMBDA c : Matches(pred, c)))

RECURSIVE SendEach(_, _, _, _)
\* the forEach of ClientsList.send: client.send(type, payload) of each found client,
\* i.e. client.socket.send(MessageFactory.create(type, payload))
SendEach(log, found, cause, msg) ==
  IF found = <<>> THEN log
  ELSE SendEach(SocketSend(log, Head(found).socket, cause, msg), Tail(found), cause, msg)

\* ClientsList.send reaching the first found client only
sendToFirstFound(log, cur, cause, msg) ==
  IF ~cur.set \/ cur.items = <<>> THEN log
  ELSE SocketSend(log, cur.items[1].socket, cause, msg)

\* ClientsList.send: the socket.send() calls after it; `cause` tells the call of
\* the application apart from the frames (it is negative)
sendToFound(log, cur, cause, msg) == IF ~cur.set THEN log ELSE SendEach(log, cur.items, cause, msg)

\* the application calls clients.find(pred).send(type, payload)
ApplicationBroadcast(pred, type, payload) ==
  /\ Quiet
  /\ Len(broadcasts) < MaxBroadcasts
  /\ LET found == find(clients, pred)
         k == Len(broadcasts) + 1
     IN  /\ cursor' = found
         /\ \E id \in NanoIds :
              sent' = sendToFound(sent, found, 0 - k, create(JStr(type), payload, id))
         /\ broadcasts' = Append(broadcasts,
                                 [pred |-> pred, type |-> type, payload |-> payload,
                                  registered |-> Len(clients), found |-> Len(found.items)])
  /\ UNCHANGED <<ready, msgWaiter, age, frames, microtasks, clients, uploadingFiles,
                 timers, closeCalls, invoked, theClient, evaluated>>

\* connections that authorize, end, and are sent messages by the application
BroadcastNext ==
  \/ \E s \in Sockets : Connect(s)
  \/ \E s \in Sockets : FramesBelow(MaxFrames) /\ onmessage(s, TAuthorize)
  \/ onmessageResume
  \/ \E s \in Sockets, n \in 1..MaxFrames, outcome \in OnAuthOutcomes : Settle(s, n, outcome)
  \/ \E s \in Sockets : CloseEvent(s)
  \/ \E pred \in Predicates : ApplicationBroadcast(pred, "workspace-updated", EmptyPayload)

BroadcastSpec == Init /\ [][BroadcastNext]_vars

(***************************************************************************)
(* The client's events: its socket's handlers (init), its timers, and the  *)
(* application's calls of send() and sendFile()                            *)
(***************************************************************************)
\* the lengths of the files the application uploads
FileLengths == {25000}

\* the promises of one kind
PromisesOf(c, kind) == {t \in 1..Len(c.promises) : c.promises[t].kind = kind}

\* the frames the client handed to its current socket
EmittedHere(c) == {i \in 1..Len(c.emitted) : c.emitted[i].socket = c.socket.n}

\* the file-transfer response that onMessage hands to onChunkResponseMessage
\* (part_014:750-751): fileId, chunkNumber, isUploaded and payload beside each other
FileTransferResponse(fileId, isUploaded, chunkNumber, payload) ==
  [kind |-> "string",
   json |-> Stringify([fileId |-> JStr(fileId), isUploaded |-> JBool(isUploaded),
                       chunkNumber |-> JNum(chunkNumber), payload |-> payload])]

\* what the server sends when the upload of fileId is complete and
\* onUploadMessage returned `response` (server.ts:852-854)
UploadedResponse(fileId, response) == respond(JStr(fileId), response)

\* what the server sends for a chunk of an incomplete upload (server.ts:859-865)
ChunkResponse(frame) ==
  respond(Get(frame.message, "id"),
          Stringify([chunkNumber |-> JNum(frame.chunkNumber),
                     type |-> Get(frame.message, "type"),
                     fileId |-> JStr(frame.fileId)]))

\* the frames a server may send on the client's connection besides those of an
\* upload: a response to a request sent on it, and a message of its own
InboundTexts(c) ==
  LET texts == {c.emitted[i].frame : i \in {k \in EmittedHere(c) :
                                              c.emitted[k].frame.kind = "string"}}
  IN  {respond(Get(f.json, "messageId"), a) :
         f \in {t \in texts : Get(t.json, "type") = JStr("authorize")}, a \in AuthDatas}
      \cup {respond(Get(f.json, "messageId"), p) :
              f \in {t \in texts : Get(t.json, "type") # JStr("authorize")},
              p \in ResponsePayloads}
      \cup {create(JStr("workspace-updated"), EmptyPayload, id) : id \in NanoIds}

\* the frames a server may send for a chunk sent on the client's connection: the two
\* responses of the server, and the file-transfer response the client reads
InboundTransfers(c) ==
  LET chunks == {c.emitted[i].frame : i \in {k \in EmittedHere(c) :
                                               c.emitted[k].frame.kind = "chunk"}}
  IN  {ChunkResponse(f) : f \in chunks}
      \cup {UploadedResponse(f.fileId, p) : f \in chunks, p \in ResponsePayloads}
      \cup {FileTransferResponse(f.fileId, b, f.chunkNumber, p) :
              f \in chunks, b \in BOOLEAN, p \in ResponsePayloads}

Inbound(c) == InboundTexts(c) \cup InboundTransfers(c)

\* whether a call of send() now would create a socket
WouldReconnect(c) == c.socket.readyState = "CLOSED" /\ ~c.reconnectionTimer.armed

\* socket.onopen up to the promise of send('authorize', ...)
onopen ==
  /\ theClient.socket.readyState = "CONNECTING"
  /\ LET opened == [theClient EXCEPT !.socket.readyState = "OPEN"]
         made == NewPromise(opened, "authorize")
     IN  theClient' = send(made, "authorize", AuthRequestPayload, Len(made.promises))
  /\ UNCHANGED <<serverVars, broadcasts, evaluated>>

\* the peer starts the closing handshake
ClosingHandshake ==
  /\ theClient.socket.readyState = "OPEN"
  /\ theClient' = [theClient EXCEPT !.socket.readyState = "CLOSING"]
  /\ UNCHANGED <<serverVars, broadcasts, evaluated>>

\* socket.onclose: the event is logged
clientOnclose ==
  /\ theClient.socket.readyState \in {"OPEN", "CLOSING"}
  /\ theClient' = [theClient EXCEPT !.socket.readyState = "CLOSED"]
  /\ UNCHANGED <<serverVars, broadcasts, evaluated>>

\* socket.onerror, with the close event that follows it: reject(event) settles the
\* promise of init() if it is pending, and the reconnect() that awaits it catches
clientOnerror ==
  /\ theClient.socket.readyState \in {"CONNECTING", "OPEN", "CLOSING"}
  /\ LET rejects == theClient.socket.init = "pending"
         ended == [theClient EXCEPT !.socket.readyState = "CLOSED",
                                    !.socket.init = IF rejects THEN "rejected" ELSE @]
     IN  theClient' = IF rejects /\ theClient.socket.awaited
                      THEN reconnectCatch(ended)
                      ELSE IF rejects
                      THEN [ended EXCEPT !.uncaught = Append(@, "init rejected")]
                      ELSE ended
  /\ UNCHANGED <<serverVars, broadcasts, evaluated>>

\* socket.onmessage
clientOnmessage(data) ==
  /\ theClient.socket.readyState = "OPEN"
  /\ theClient.received.count < MaxInbound
  /\ data \in Inbound(theClient)
  /\ theClient' = onMessage([theClient EXCEPT
                               !.received = [count |-> @.count + 1, last |-> data]], data)
  /\ UNCHANGED <<serverVars, broadcasts, evaluated>>

\* the application calls send(type, payload)
ApplicationSend(type, payload) ==
  /\ Cardinality(PromisesOf(theClient, "send")) < MaxSends
  /\ LET made == NewPromise(theClient, "send")
     IN  theClient' = send(made, type, payload, Len(made.promises))
  /\ UNCHANGED <<serverVars, broadcasts, evaluated>>

\* the application calls sendFile(type, file, payload)
ApplicationSendFile(type, length, payload) ==
  /\ Cardinality(PromisesOf(theClient, "sendFile")) < MaxUploads
  /\ theClient' = sendFile(theClient, type, length, payload)
  /\ UNCHANGED <<serverVars, broadcasts, evaluated>>

\* the callback of reconnectionTimer
ReconnectionTimerFire ==
  /\ theClient.reconnectionTimer.armed
  /\ theClient.reconnectionTimer.left = 0
  /\ theClient' = reconnect(theClient, TRUE)
  /\ UNCHANGED <<serverVars, broadcasts, evaluated>>

\* the callback of a file's responseWaitingTimeoutId: the chunk is sent again and
\* resendTimes is incremented; an Error of sendChunk is caught by nobody
ResendTimerFire(i) ==
  /\ i \in 1..Len(theClient.uploadingFiles)
  /\ theClient.uploadingFiles[i].responseWaitingTimeoutId.armed
  /\ theClient.uploadingFiles[i].responseWaitingTimeoutId.left = 0
  /\ LET file == theClient.uploadingFiles[i]
         timer == file.responseWaitingTimeoutId
         fired == [theClient EXCEPT !.uploadingFiles[i].responseWaitingTimeoutId = NoTimer]
         resent == sendChunk(fired, file.id, timer.chunkNumber, timer.message)
     IN  theClient' =
           IF resent.thrown # NoError
           THEN [resent EXCEPT !.uncaught = Append(@, resent.thrown), !.thrown = NoError]
           ELSE [resent EXCEPT !.uploadingFiles[i].resendTimes = @ + 1]
  /\ UNCHANGED <<serverVars, broadcasts, evaluated>>

\* the ms left on the client's armed timers
ClientDue ==
  {theClient.reconnectionTimer.left : x \in {y \in {1} : theClient.reconnectionTimer.armed}}
  \cup {theClient.uploadingFiles[i].responseWaitingTimeoutId.left :
          i \in {k \in 1..Len(theClient.uploadingFiles) :
                   theClient.uploadingFiles[k].responseWaitingTimeoutId.armed}}

\* time passes on the client's side, never beyond its next timer
ClientTick ==
  /\ ClientDue # {}
  /\ 0 \notin ClientDue
  /\ LET d == SetMin(ClientDue)
     IN  theClient' =
           [theClient EXCEPT
              !.reconnectionTimer = IF @.armed THEN [@ EXCEPT !.left = @ - d] ELSE @,
              !.uploadingFiles =
                 [i \in 1..Len(@) |->
                    IF @[i].responseWaitingTimeoutId.armed
                    THEN [@[i] EXCEPT !.responseWaitingTimeoutId.left = @ - d]
                    ELSE @[i]]]
  /\ UNCHANGED <<serverVars, broadcasts, evaluated>>

\* the client has created fewer than `limit` sockets
SocketsBelow(limit) == theClient.socket.n < limit

\* file i has been sent again fewer than `limit` times since its last response
ResendsBelow(i, limit) ==
  i \in 1..Len(theClient.uploadingFiles) => theClient.uploadingFiles[i].resendTimes < limit

\* the send engine and the upload driver together
ClientNext ==
  \/ onopen
  \/ ClosingHandshake
  \/ clientOnclose
  \/ clientOnerror
  \/ \E data \in InboundTexts(theClient) : clientOnmessage(data)
  \/ /\ WouldReconnect(theClient) => SocketsBelow(MaxSockets)
     /\ \E type \in {"sum-of-numbers"} : ApplicationSend(type, EmptyPayload)
  \/ \E length \in FileLengths : ApplicationSendFile("store", length, FilePayload)
  \/ SocketsBelow(MaxSockets) /\ ReconnectionTimerFire
  \/ \E i \in 1..MaxUploads : ResendsBelow(i, MaxResends) /\ ResendTimerFire(i)
  \/ ClientTick

ClientSpec == Init /\ [][ClientNext]_vars

\* the upload driver on one connection, with all it does when no response comes
UploadNext ==
  \/ onopen
  \/ \E data \in Inbound(theClient) : clientOnmessage(data)
  \/ \E length \in FileLengths : ApplicationSendFile("store", length, FilePayload)
  \/ \E i \in 1..MaxUploads : ResendTimerFire(i)
  \/ ClientTick

UploadSpec == Init /\ [][UploadNext]_vars

\* the reconnecting of a client whose connections fail or end
ReconnectNext ==
  \/ onopen
  \/ clientOnclose
  \/ clientOnerror
  \/ /\ WouldReconnect(theClient) => SocketsBelow(MaxReconnectSockets)
     /\ \E type \in {"sum-of-numbers"} : ApplicationSend(type, EmptyPayload)
  \/ SocketsBelow(MaxReconnectSockets) /\ ReconnectionTimerFire
  \/ ClientTick

ReconnectSpec == Init /\ [][ReconnectNext]_vars

(***************************************************************************)
(* The validator and the message factory applied to messages: the          *)
(* arguments are drawn at the start, a step applies the function           *)
(***************************************************************************)
\* what a sender may put into the three fields of a message (JUndefined: the field
\* is absent)
MessageIdOptions ==
  {JUndefined, JNull, JNum(1), JStr(""), JStr("short"), JStr("abcDEF_-09"),
   JStr("abcDEF_-0!"), JStr("abcDEF_-098")}
TypeOptions == {JUndefined, JNull, JNum(0), JStr(""), JStr("ping")}
PayloadOptions ==
  {JUndefined, JNull, JNum(2), JStr("x"), JArr(<<>>), EmptyPayload, FilePayload}

\* the text frames whose JSON is an object with these fields
MessageTexts ==
  {[kind |-> "string",
    json |-> Stringify([messageId |-> i, type |-> t, payload |-> p])] :
     i \in MessageIdOptions, t \in TypeOptions, p \in PayloadOptions}

\* the frames handed to validateMessage
ValidatorInputs ==
  MessageTexts \cup {TNotJSON, NonText, [kind |-> "string", json |-> JNull],
                     [kind |-> "string", json |-> JNum(5)]}

ValidatorInit ==
  /\ Constructions
  /\ \E message \in ValidatorInputs :
       evaluated = [fn |-> "validateMessage", message |-> message, done |-> FALSE]

\* MessageValidator.validateMessage(message)
ApplyValidateMessage ==
  /\ evaluated.fn = "validateMessage"
  /\ ~evaluated.done
  /\ evaluated' = [fn |-> "validateMessage", message |-> evaluated.message, done |-> TRUE,
                   result |-> validateMessage(evaluated.message)]
  /\ UNCHANGED <<serverVars, broadcasts, theClient>>

ValidatorNext == ApplyValidateMessage

ValidatorSpec == ValidatorInit /\ [][ValidatorNext]_vars

\* the arguments of MessageFactory.create: types, payloads that are JSON objects,
\* and the ids nanoid(idLength) may return
FactoryTypes == {"", "ping", "authorize", "a\"b"}
FactoryPayloads ==
  {EmptyPayload, FilePayload, AuthRequestPayload, JObj([a |-> JNull]),
   JObj([o |-> JObj([n |-> JNum(1)]), l |-> JArr(<<JNum(1), JStr("x"), JNull>>)])}
FactoryIds ==
  {"srvGenId01", "0123456789", "ABCDEFGHIJ", "__________", "----------", "a-B_c0D1e2"}

FactoryInit ==
  /\ Constructions
  /\ \E type \in FactoryTypes, payload \in FactoryPayloads, id \in FactoryIds :
       evaluated = [fn |-> "create", type |-> type, payload |-> payload, id |-> id,
                    done |-> FALSE]

\* MessageFactory.create(type, payload), and the validator on the text it returns
ApplyCreate ==
  /\ evaluated.fn = "create"
  /\ ~evaluated.done
  /\ LET text == create(JStr(evaluated.type), evaluated.payload, evaluated.id)
     IN  evaluated' = [fn |-> "create", type |-> evaluated.type,
                       payload |-> evaluated.payload, id |-> evaluated.id, done |-> TRUE,
                       text |-> text, result |-> validateMessage(text)]
  /\ UNCHANGED <<serverVars, broadcasts, theClient>>

FactoryNext == ApplyCreate

FactorySpec == FactoryInit /\ [][FactoryNext]_vars

\* the arguments of MessageFactory.packChunk: file ids, chunk numbers, chunks of file
\* data (size is their length, as sendChunk passes it) and sidecars
PackFileIds == {"fileId0001", "a-B_c0D1e2"}
PackChunkNumbers == {0, 1, 2, 258}
PackDatas == {<<>>, <<7>>, <<1, 2, 3>>, <<0, 255, 128, 65, 66>>}
PackSidecars == {SidecarOneChunk, SidecarFirstOfTwo, SidecarNext}

PackInit ==
  /\ Constructions
  /\ \E fileId \in PackFileIds, chunkNumber \in PackChunkNumbers,
        bufData \in PackDatas, message \in PackSidecars :
       evaluated = [fn |-> "packChunk", fileId |-> fileId, chunkNumber |-> chunkNumber,
                    bufData |-> bufData, message |-> message, done |-> FALSE]

\* MessageFactory.packChunk, then the server on the frame: validateBufferMessage and
\* the parsing at the head of handleBufferMessage
ApplyPackChunk ==
  /\ evaluated.fn = "packChunk"
  /\ ~evaluated.done
  /\ LET frame == packChunk(evaluated.fileId, evaluated.chunkNumber,
                            Len(evaluated.bufData), evaluated.bufData, evaluated.message)
     IN  evaluated' = [fn |-> "packChunk", fileId |-> evaluated.fileId,
                       chunkNumber |-> evaluated.chunkNumber,
                       bufData |-> evaluated.bufData, message |-> evaluated.message,
                       done |-> TRUE, frame |-> frame,
                       result |-> validateBufferMessage([kind |-> "buffer", bytes |-> frame]),
                       parsed |-> ParsedChunk(frame)]
  /\ UNCHANGED <<serverVars, broadcasts, theClient>>

PackNext == ApplyPackChunk

PackSpec == PackInit /\ [][PackNext]_vars
(***************************************************************************)
(* Vocabulary of the properties                                            *)
(***************************************************************************)
\* the socket.send() calls, socket.close() calls and handler calls made for frame n
ForFrame(log, n) == SelectSeq(log, LAMBDA e : e.cause = n)

\* the Client records of connection s in a registry
RecordsOf(list, s) == SelectSeq(list, LAMBDA c : c.socket = s)

\* the Client records that the handling of frame n of connection s created
RecordsBy(list, s, n) == SelectSeq(list, LAMBDA c : c.of = <<s, n>>)

IsText(data) == data.kind = "string"
IsJSONText(data) == IsText(data) /\ data.json.t # "syntaxerror"
TypeIs(data, type) == Get(data.json, "type") = JStr(type)

\* a well-formed text message whose type is not "authorize", met without a Client record
UnauthorizedRequest(f) ==
  /\ f.status = "done"
  /\ f.route = "first"
  /\ IsJSONText(f.data)
  /\ ~TypeIs(f.data, "authorize")

\* the step handles the settling of `handler`, awaited for frame n of connection s
Settles(s, n, handler) ==
  /\ n \in 1..Len(frames[s])
  /\ frames[s][n].status = "pending"
  /\ frames[s][n].handler = handler
  /\ frames'[s][n].status = "done"

\* the step receives a frame on connection s
Receives(s) == Len(frames'[s]) = Len(frames[s]) + 1

\* the step handles the close event or the error event of connection s
Ends(s) == ready'[s] # ready[s] /\ ready'[s] \in {"CLOSED", "ERRORED"}

(***************************************************************************)
(* Properties                                                              *)
(***************************************************************************)
\* C1: a well-formed text message of a type other than "authorize" on a connection
\* without a Client record makes the server call close(1008, "Unauthorized") once;
\* no handler is called for it and no Client record is added for it.
UnauthorizedIsClosed ==
  \A s \in Sockets : \A n \in 1..Len(frames[s]) :
    UnauthorizedRequest(frames[s][n]) =>
      /\ Len(ForFrame(closeCalls[s], n)) = 1
      /\ ForFrame(closeCalls[s], n)[1].code = 1008
      /\ ForFrame(closeCalls[s], n)[1].reason = "Unauthorized"
      /\ ForFrame(invoked[s], n) = <<>>
      /\ RecordsBy(clients, s, n) = <<>>

UnauthorizedIsClosedWitness ==
  \E s \in Sockets : \E n \in 1..Len(frames[s]) :
    /\ UnauthorizedRequest(frames[s][n])
    /\ frames[s][n].data = TPing
    /\ \E i \in 1..Len(closeCalls[s]) :
         closeCalls[s][i].cause = n /\ closeCalls[s][i].state = "OPEN"

\* C2: when onAuth returns authData for the authorize message m, the registry then
\* holds exactly one Client record of that connection, with that authData, and
\* exactly one response (m, authData) has been sent on the connection.
AuthorizedOnce ==
  [][\A s \in Sockets : \A n \in 1..MaxFrames :
       (Settles(s, n, "onAuth") /\ frames'[s][n].outcome.kind = "returned") =>
         LET authData == frames'[s][n].outcome.value
             m == Get(frames[s][n].data.json, "messageId")
         IN  /\ Len(RecordsOf(clients', s)) = 1
             /\ RecordsOf(clients', s)[1].authData = authData
             /\ Len(ForFrame(sent'[s], n)) = 1
             /\ ForFrame(sent'[s], n)[1].msg = respond(m, authData)]_vars

\* C3: when onAuth throws e for an authorize message, the server calls
\* close(1008, "Authorization failed: " + e.message) once; the call adds no Client
\* record and sends no response.
AuthFailureIsClosed ==
  \A s \in Sockets : \A n \in 1..Len(frames[s]) :
    LET f == frames[s][n]
    IN  (f.status = "done" /\ f.handler = "onAuth" /\ f.outcome.kind = "threw") =>
          /\ Len(ForFrame(closeCalls[s], n)) = 1
          /\ ForFrame(closeCalls[s], n)[1].code = 1008
          /\ ForFrame(closeCalls[s], n)[1].reason = "Authorization failed: " \o f.outcome.message
          /\ RecordsBy(clients, s, n) = <<>>
          /\ ForFrame(sent[s], n) = <<>>

AuthFailureIsClosedWitness ==
  \E s \in Sockets : \E n \in 1..Len(frames[s]) :
    /\ frames[s][n].status = "done"
    /\ frames[s][n].handler = "onAuth"
    /\ frames[s][n].outcome = Threw("No user found")
    /\ \E i \in 1..Len(closeCalls[s]) :
         /\ closeCalls[s][i].cause = n
         /\ closeCalls[s][i].state = "OPEN"
         /\ closeCalls[s][i].reason = "Authorization failed: No user found"

\* C4: a connection that stays without an inbound frame is closed with
\* close(1013, "Authorization required") when 3000 ms have passed since it opened:
\* the clock of a waiting connection never passes 3000, a connection that has seen
\* no frame and waits no longer has been closed that way, and every such close was
\* issued at 3000 ms on a connection that had seen no frame.
ClosedAfterWaiting ==
  \A s \in Sockets :
    /\ age[s] <= 3000
    /\ (ready[s] # "IDLE" /\ frames[s] = <<>> /\ ~msgWaiter[s].armed) =>
         \E i \in 1..Len(closeCalls[s]) : closeCalls[s][i].code = 1013
    /\ \A i \in 1..Len(closeCalls[s]) :
         closeCalls[s][i].code = 1013 =>
           /\ closeCalls[s][i].reason = "Authorization required"
           /\ closeCalls[s][i].age = 3000
           /\ closeCalls[s][i].fresh

ClosedAfterWaitingWitness ==
  \E s \in Sockets : \E i \in 1..Len(closeCalls[s]) :
    /\ closeCalls[s][i].code = 1013
    /\ closeCalls[s][i].state = "OPEN"
    /\ closeCalls[s][i].age = 3000
    /\ frames[s] = <<>>

\* C5: of several authorize messages on one connection only the first invokes
\* onAuth; a later one causes no handler call, no response, no Client record and
\* no close.
LaterAuthorizeIgnored ==
  \A s \in Sockets : \A n \in 1..Len(frames[s]) :
    LET later == /\ IsJSONText(frames[s][n].data)
                 /\ TypeIs(frames[s][n].data, "authorize")
                 /\ frames[s][n].route # "format"
                 /\ \E k \in 1..(n - 1) :
                      /\ IsJSONText(frames[s][k].data)
                      /\ TypeIs(frames[s][k].data, "authorize")
                      /\ frames[s][k].route # "format"
    IN  later =>
          /\ ForFrame(invoked[s], n) = <<>>
          /\ ForFrame(sent[s], n) = <<>>
          /\ ForFrame(closeCalls[s], n) = <<>>
          /\ RecordsBy(clients, s, n) = <<>>

ParseFailure(data) ==
  \/ data.kind \notin {"string", "buffer"}
  \/ IsText(data) /\ data.json.t = "syntaxerror"
  \/ data.kind = "buffer" /\ Len(data.bytes) < 18

\* C7: a frame that fails the parse-validation makes the server call
\* close(1003, the validator's message) once; nothing is sent and no handler is
\* called for it, whatever the state of the connection.
ParseFailureIsClosed ==
  \A s \in Sockets : \A n \in 1..Len(frames[s]) :
    ParseFailure(frames[s][n].data) =>
      /\ Len(ForFrame(closeCalls[s], n)) = 1
      /\ ForFrame(closeCalls[s], n)[1].code = 1003
      /\ ForFrame(closeCalls[s], n)[1].reason = Validate(frames[s][n].data).message
      /\ ForFrame(sent[s], n) = <<>>
      /\ ForFrame(invoked[s], n) = <<>>

\* a text frame that parses as JSON and fails the format validation
FormatFailure(data) == IsJSONText(data) /\ ~validateMessage(data).ok

\* the payload.error of a message
ErrorOf(msg) == Get(Get(msg.json, "payload"), "error")

\* C8: a text frame that parses as JSON and fails the format validation is answered
\* by exactly one message of type "error" whose payload.error is "Message Format
\* Error: " and the validator's message; the step calls no close and no handler
\* and leaves the registry as it is, and nothing more is ever sent for the frame.
FormatErrorIsReported ==
  [][/\ \A s \in Sockets :
          (Receives(s) /\ FormatFailure(frames'[s][Len(frames'[s])].data)) =>
            LET n == Len(frames'[s])
                data == frames'[s][n].data
                new == ForFrame(sent'[s], n)
            IN  /\ Len(new) = 1
                /\ sent' = [sent EXCEPT ![s] = Append(@, new[1])]
                /\ Get(new[1].msg.json, "type") = JStr("error")
                /\ Get(new[1].msg.json, "messageId").t = "string"
                /\ ErrorOf(new[1].msg)
                     = JStr("Message Format Error: " \o validateMessage(data).message)
                /\ data = TFooBar =>
                     ErrorOf(new[1].msg)
                       = JStr("Message Format Error: 'messageId' field missed")
                /\ closeCalls' = closeCalls
                /\ invoked' = invoked
                /\ clients' = clients
                /\ ready' = ready
     /\ \A s \in Sockets : \A n \in 1..Len(frames'[s]) :
          FormatFailure(frames'[s][n].data) =>
            /\ Len(ForFrame(sent'[s], n)) = 1
            /\ ForFrame(closeCalls'[s], n) = <<>>
            /\ ForFrame(invoked'[s], n) = <<>>]_vars

FormatErrorIsReportedWitness ==
  \E s \in Sockets : \E n \in 2..Len(frames[s]) :
    /\ frames[s][n].data = TFooBar
    /\ RecordsOf(clients, s) # <<>>
    /\ ready[s] = "OPEN"
    /\ \E i \in 1..Len(sent[s]) : sent[s][i].cause = n /\ sent[s][i].open

\* C9: when onMessage or onUploadMessage throws, the step sends nothing, calls no
\* close, leaves the registry and the transport as they are, and nothing is ever
\* sent or closed for that frame; later frames of the connection are handled.
HandlerFailureIsDropped ==
  [][/\ \A s \in Sockets : \A n \in 1..MaxFrames :
          \A handler \in {"onMessage", "onUploadMessage"} :
            (Settles(s, n, handler) /\ frames'[s][n].outcome.kind = "threw") =>
              /\ sent' = sent
              /\ closeCalls' = closeCalls
              /\ clients' = clients
              /\ RecordsOf(clients', s) # <<>> \/ ready[s] \in {"ERRORED", "CLOSED"}
              /\ ready' = ready
     /\ \A s \in Sockets : \A n \in 1..Len(frames'[s]) :
          LET f == frames'[s][n]
          IN  (f.handler \in {"onMessage", "onUploadMessage"} /\ f.outcome.kind = "threw") =>
                /\ ForFrame(sent'[s], n) = <<>>
                /\ ForFrame(closeCalls'[s], n) = <<>>]_vars

HandlerFailureIsDroppedWitness ==
  \E s \in Sockets : \E n \in 1..Len(frames[s]) : \E k \in (n + 1)..Len(frames[s]) :
    /\ frames[s][n].handler = "onUploadMessage"
    /\ frames[s][n].outcome.kind = "threw"
    /\ frames[s][k].handler = "onMessage"
    /\ frames[s][k].outcome \in {Returned(p) : p \in ResponsePayloads}
    /\ ready[s] = "OPEN"
    /\ RecordsOf(clients, s) # <<>>
    /\ \E i \in 1..Len(sent[s]) : sent[s][i].cause = k /\ sent[s][i].open

\* the Client records of the connections other than s in a registry
RecordsOfOthers(list, s) == SelectSeq(list, LAMBDA c : c.socket # s)

\* C10: when the close event or the error event of a connection has been handled,
\* the registry holds no Client record of it, and the records of the other
\* connections are as they were.
EndRemovesOwnRecord ==
  [][\A s \in Sockets :
       Ends(s) =>
         /\ RecordsOf(clients', s) = <<>>
         /\ RecordsOfOthers(clients', s) = RecordsOfOthers(clients, s)]_vars

EndRemovesOwnRecordWitness ==
  \E s \in Sockets :
    /\ ready[s] = "CLOSED"
    /\ \E n \in 1..Len(frames[s]) :
         frames[s][n].handler = "onAuth" /\ frames[s][n].outcome.kind = "returned"
    /\ \E i \in 1..Len(closeCalls[s]) : closeCalls[s][i].code = NormalClosure
    /\ RecordsOf(clients, s) = <<>>
    /\ RecordsOfOthers(clients, s) # <<>>

(***************************************************************************)
(* Vocabulary of the client's properties                                   *)
(***************************************************************************)
\* the promises send() made for the application or for onopen
RequestPromises ==
  {t \in 1..Len(theClient.promises) : theClient.promises[t].kind \in {"send", "authorize"}}

\* the pending-request entries whose resolver is the one of promise t
EntriesOf(c, t) == {i \in 1..Len(c.requests) : c.requests[i].cb = t}

\* the frames the step hands to socket.send, in order
NewlyEmitted ==
  SubSeq(theClient'.emitted, Len(theClient.emitted) + 1, Len(theClient'.emitted))

\* the step is the application's call of send()
CallsSend ==
  /\ Len(theClient'.promises) = Len(theClient.promises) + 1
  /\ theClient'.promises[Len(theClient'.promises)].kind = "send"

\* the step calls options.onAuth
TellsOnAuth ==
  /\ Len(theClient'.hooks) = Len(theClient.hooks) + 1
  /\ theClient'.hooks[Len(theClient'.hooks)].hook = "onAuth"

\* the step delivers a frame to onMessage
Delivers == theClient'.received.count = theClient.received.count + 1

\* the step is the socket's error event or its close event
SocketEnds ==
  /\ theClient.socket.readyState # "CLOSED"
  /\ theClient'.socket.n = theClient.socket.n
  /\ theClient'.socket.readyState = "CLOSED"

(***************************************************************************)
(* Properties of the client                                                *)
(***************************************************************************)
\* C11: the resolver of a request is invoked at most once, and once it has been
\* invoked the request has no entry in the pending-request table (so that a later
\* response with the same messageId finds nothing to call).
ResolverInvokedOnce ==
  \A t \in RequestPromises :
    /\ theClient.promises[t].calls <= 1
    /\ theClient.promises[t].calls = 1 => EntriesOf(theClient, t) = {}

\* C13: the client creates at most 5 sockets besides its constructor's one; once
\* 5 reconnection attempts have been made no further socket is created.
ReconnectionsBounded == theClient.socket.n - 1 <= 5

\* C14: when the socket reports an error or closes, the retry timer is armed with
\* 5 seconds, whether or not the application calls send().
RetryTimerArmedOnFailure ==
  [][SocketEnds =>
       /\ theClient'.reconnectionTimer.armed
       /\ theClient'.reconnectionTimer.left = 5000]_vars

\* whether sequence a is a prefix of sequence b
IsPrefix(a, b) == Len(a) <= Len(b) /\ SubSeq(b, 1, Len(a)) = a

\* the queue entries that wait with the resolver of promise t
QueuedOf(c, t) == {i \in 1..Len(c.enqueuedMessages) : c.enqueuedMessages[i].callback = t}

\* the queued chunks whose file is still uploading
Uploadable(c) ==
  SelectSeq(c.enqueuedBufferMessages,
            LAMBDA e : getUploadingFileById(c.uploadingFiles, e.fileId) > 0)

\* the frame is the request send() makes of a queued message, recorded in the
\* pending-request table with the message's resolver
IsRequestOf(e, queued) ==
  /\ e.frame.kind = "string"
  /\ Get(e.frame.json, "type") = JStr(queued.type)
  /\ Get(e.frame.json, "payload") = queued.payload
  /\ \E r \in EntriesOf(theClient', queued.callback) :
        JStr(theClient'.requests[r].messageId) = Get(e.frame.json, "messageId")

\* the frame is the chunk sendChunk() makes of a queued chunk
IsChunkOf(e, queued) ==
  /\ e.frame.kind = "chunk"
  /\ e.frame.fileId = queued.fileId
  /\ e.frame.chunkNumber = queued.chunkNumber
  /\ e.frame.message = queued.message

\* C12: a send() made while the socket is not OPEN hands nothing to the socket
\* and appends the message to the text queue; a message leaves a queue only in
\* the step that delivers the response to the authorize request of an open
\* connection; that step sends the queued texts in the order of the queue, then
\* the queued chunks, and empties the text queue; and every request is at any
\* time either queued once or sent once.
QueuedSendsFlushedInOrder ==
  [][/\ CallsSend /\ theClient.socket.readyState # "OPEN" =>
          /\ NewlyEmitted = <<>>
          /\ theClient'.enqueuedMessages =
                Append(theClient.enqueuedMessages,
                       [type |-> "sum-of-numbers", payload |-> EmptyPayload,
                        callback |-> Len(theClient'.promises)])
     /\ ~TellsOnAuth =>
          /\ IsPrefix(theClient.enqueuedMessages, theClient'.enqueuedMessages)
          /\ IsPrefix(theClient.enqueuedBufferMessages, theClient'.enqueuedBufferMessages)
     /\ TellsOnAuth =>
          LET texts == theClient.enqueuedMessages
              chunks == Uploadable(theClient)
              sentChunks == Len(NewlyEmitted) - Len(texts)
          IN  /\ Delivers
              /\ theClient.socket.readyState = "OPEN"
              /\ \E t \in PromisesOf(theClient', "authorize") :
                    /\ theClient'.promises[t].socket = theClient.socket.n
                    /\ theClient'.promises[t].state = "fulfilled"
              /\ sentChunks \in 0..Len(chunks)
              /\ theClient'.uncaught = theClient.uncaught => sentChunks = Len(chunks)
              /\ \A i \in 1..Len(texts) : IsRequestOf(NewlyEmitted[i], texts[i])
              /\ \A j \in 1..sentChunks : IsChunkOf(NewlyEmitted[Len(texts) + j], chunks[j])
              /\ \A i \in 1..Len(NewlyEmitted) :
                    NewlyEmitted[i].socket = theClient.socket.n
              /\ theClient'.enqueuedMessages = <<>>
     /\ \A t \in PromisesOf(theClient', "send") :
          Cardinality(QueuedOf(theClient', t)) + Cardinality(EntriesOf(theClient', t)) = 1
    ]_vars

\* C12 happens: the response to authorize found two texts and a chunk queued, and
\* the three frames followed the authorize request of that connection
QueuedSendsFlushedInOrderWitness ==
  \E h \in 1..Len(theClient.hooks) :
    /\ theClient.hooks[h].hook = "onAuth"
    /\ theClient.hooks[h].texts = 2
    /\ theClient.hooks[h].chunks = 1
    /\ Len(theClient.emitted) = theClient.hooks[h].emitted + 3
    /\ theClient.emitted[Len(theClient.emitted)].frame.kind = "chunk"
    /\ theClient.enqueuedMessages = <<>>
    /\ theClient.enqueuedBufferMessages = <<>>

(***************************************************************************)
(* Properties of the client's uploads                                      *)
(***************************************************************************)
\* the uploading files whose resolver is the one of promise t
JobsOf(c, t) == {i \in 1..Len(c.uploadingFiles) : c.uploadingFiles[i].cb = t}

\* the step runs the callback of file i's responseWaitingTimeoutId
TimesOut(i) ==
  /\ i \in 1..Len(theClient.uploadingFiles)
  /\ theClient.uploadingFiles[i].responseWaitingTimeoutId.armed
  /\ theClient.uploadingFiles[i].responseWaitingTimeoutId.left = 0
  /\ ~Delivers

\* C15: when the server's response to a complete upload, keyed by
\* messageId = fileId and carrying the value p of onUploadMessage, is delivered
\* to a client that is uploading that file, the promise of sendFile is fulfilled
\* with p and the file is removed from uploadingFiles.
UploadedResponseFulfils ==
  [][\A i \in 1..Len(theClient.uploadingFiles) : \A p \in ResponsePayloads :
       LET file == theClient.uploadingFiles[i]
       IN  Delivers /\ theClient'.received.last = UploadedResponse(file.id, p) =>
             /\ theClient'.promises[file.cb].state = "fulfilled"
             /\ theClient'.promises[file.cb].value = p
             /\ JobsOf(theClient', file.cb) = {}
    ]_vars

\* C16: the first chunk of a file of L bytes declares ceil(L / 10000) chunks, and
\* every chunk handed to the socket has a number k below that count, carries the
\* bytes [10000 k, min(L, 10000 (k + 1))) of the file and nothing else, and has
\* that number of bytes in its size field.
ChunksCarryFileBytes ==
  \A e \in 1..Len(theClient.emitted) : \A f \in 1..Len(theClient.files) :
    LET frame == theClient.emitted[e].frame
        L == theClient.files[f].length
        k == frame.chunkNumber
        upTo == Min(L, 10000 * (k + 1))
    IN  frame.kind = "chunk" /\ frame.fileId = theClient.files[f].id =>
          /\ k = 0 => Get(frame.message, "chunks") = JNum((L + 9999) \div 10000)
          /\ k < (L + 9999) \div 10000
          /\ frame.data = Bytes(10000 * k, upTo, 0)
          /\ frame.size = upTo - 10000 * k

\* C17: each time the response to a chunk has not come for 5 seconds the chunk is
\* handed to the socket again, up to the 5th time in a row; the 6th time in a row
\* the file is removed from uploadingFiles and nothing is handed to the socket.
FailsAtSixthTimeout ==
  [][\A i \in 1..Len(theClient.uploadingFiles) :
       LET file == theClient.uploadingFiles[i]
           timer == file.responseWaitingTimeoutId
       IN  TimesOut(i) =>
             IF file.resendTimes < 5
             THEN /\ Len(NewlyEmitted) = 1
                  /\ NewlyEmitted[1].frame.kind = "chunk"
                  /\ NewlyEmitted[1].frame.fileId = file.id
                  /\ NewlyEmitted[1].frame.chunkNumber = timer.chunkNumber
                  /\ JobsOf(theClient', file.cb) # {}
             ELSE /\ NewlyEmitted = <<>>
                  /\ JobsOf(theClient', file.cb) = {}
    ]_vars

\* C18: the promise of a sendFile whose file is no longer in uploadingFiles is
\* settled: fulfilled by the response of the complete upload, or rejected when
\* the file was removed for want of a response.
FailedUploadRejects ==
  \A t \in PromisesOf(theClient, "sendFile") :
    JobsOf(theClient, t) = {} => theClient.promises[t].state \in {"fulfilled", "rejected"}

(***************************************************************************)
(* Properties of the client's authorization                                *)
(***************************************************************************)
\* the frames handed to socket n, by their place in the log
EmittedOn(c, n) == {i \in 1..Len(c.emitted) : c.emitted[i].socket = n}

\* the calls of options.onAuth made on socket n
OnAuthCalls(c, n) ==
  {h \in 1..Len(c.hooks) : c.hooks[h].hook = "onAuth" /\ c.hooks[h].socket = n}

Broadcasts == Len(broadcasts') = Len(broadcasts) + 1

\* the records of the registry on socket s that the query callback accepts
MatchingOn(list, pred, s) ==
  {i \in 1..Len(list) : list[i].socket = s /\ Matches(pred, list[i])}

\* the socket.send() calls on socket s made by the k-th call of the application
SentBy(s, k) == {j \in 1..Len(sent[s]) : sent[s][j].cause = 0 - k}

IsTenCharId(x) ==
  /\ x.t = "string"
  /\ Len(x.s) = 10
  /\ \A i \in 1..10 : SubSeq(x.s, i, i) \in IdAlphabet

\* the message of the first check that fails, in the order missing messageId, type,
\* payload; messageId, type not a string, payload not a JSON object; invalid id;
\* "" when every check passes
FirstFailure(parsed) ==
  LET messageId == Get(parsed, "messageId")
      type == Get(parsed, "type")
      payload == Get(parsed, "payload")
  IN  IF messageId.t = "undefined" THEN "'messageId' field missed"
      ELSE IF type.t = "undefined" THEN "'type' field missed"
      ELSE IF payload.t = "undefined" THEN "'payload' field missed"
      ELSE IF messageId.t # "string" THEN "'messageId' should be a string"
      ELSE IF type.t # "string" THEN "'type' should be a string"
      ELSE IF payload.t # "object" THEN "'payload' should be an object"
      ELSE IF ~IsTenCharId(messageId) THEN "Invalid message id"
      ELSE ""

\* C21: for a text whose JSON is an object, validateMessage throws the
\* MessageFormatError of the first failing check, in the order missing messageId,
\* type, payload, then messageId not a string, type not a string, payload not an
\* object, then invalid message id, and it returns exactly when messageId is a
\* string of 10 characters of the alphabet, type is a string and payload is a
\* JSON object.
ValidateMessageDecides ==
  evaluated.fn = "validateMessage" /\ evaluated.done
    /\ evaluated.message.kind = "string" /\ evaluated.message.json.t = "object" =>
      LET failure == FirstFailure(evaluated.message.json)
      IN  evaluated.result =
            IF failure = "" THEN Valid ELSE MessageFormatError(failure)

\* C22: the text MessageFactory.create(t, p) returns for a string t and a JSON
\* object p passes validateMessage, and its JSON is an object with type = t,
\* payload = p and a messageId of 10 characters of the alphabet.
CreatedMessageIsValid ==
  evaluated.fn = "create" /\ evaluated.done =>
    LET parsed == evaluated.text.json
    IN  /\ evaluated.result = Valid
        /\ evaluated.text.kind = "string"
        /\ parsed.t = "object"
        /\ Get(parsed, "type") = JStr(evaluated.type)
        /\ Get(parsed, "payload") = evaluated.payload
        /\ IsTenCharId(Get(parsed, "messageId"))

\* C22 happens: a message with a nested payload and a type that needs escaping was
\* created and validated
CreatedMessageIsValidWitness ==
  /\ evaluated.fn = "create"
  /\ evaluated.done
  /\ evaluated.type = "a\"b"
  /\ Get(evaluated.payload, "o") = JObj([n |-> JNum(1)])
  /\ evaluated.id = "a-B_c0D1e2"
  /\ evaluated.result = Valid

(***************************************************************************)
(* Properties of the upload driver's stop-and-wait                         *)
(***************************************************************************)
\* the chunk frames of one upload job, as the client handed them to its sockets
ChunksEmitted(c, fileId) ==
  SelectSeq(c.emitted, LAMBDA e : e.frame.kind = "chunk" /\ e.frame.fileId = fileId)

\* the ids of the upload jobs the client has started
JobIds(c) == {c.files[i].id : i \in 1..Len(c.files)}

\* a text frame that acknowledges chunk k of job fileId: fileId and chunkNumber beside
\* each other as onMessage reads them, or inside the payload as the server sends them
AcknowledgesChunk(data, fileId, k) ==
  /\ data.kind = "string"
  /\ data.json.t = "object"
  /\ \/ /\ Get(data.json, "fileId") = JStr(fileId)
        /\ Get(data.json, "chunkNumber") = JNum(k)
     \/ LET payload == Get(data.json, "payload")
        IN  /\ payload.t = "object"
            /\ Get(payload, "fileId") = JStr(fileId)
            /\ Get(payload, "chunkNumber") = JNum(k)

\* C23: the chunks of an upload job are emitted in increasing order, one per step: the
\* first is chunk 0, and each later one is the chunk emitted last (emitted again) or
\* its successor k+1, the latter only in the step that receives an acknowledgement
\* of chunk k; so no more than one chunk of the job awaits its acknowledgement.
StopAndWait ==
  [][\A fileId \in JobIds(theClient') :
       LET before == ChunksEmitted(theClient, fileId)
           after == ChunksEmitted(theClient', fileId)
           n == after[Len(after)].frame.chunkNumber
           k == before[Len(before)].frame.chunkNumber
       IN  Len(after) > Len(before) =>
             /\ Len(after) = Len(before) + 1
             /\ IF Len(before) = 0 THEN n = 0
                ELSE \/ n = k
                     \/ /\ n = k + 1
                        /\ theClient'.received.count = theClient.received.count + 1
                        /\ AcknowledgesChunk(theClient'.received.last, fileId, k)]_vars

\* a text frame that has the form of a chunk acknowledgement: it carries a fileId,
\* beside its other members or inside its payload
AckShaped(data) ==
  /\ data.kind = "string"
  /\ data.json.t = "object"
  /\ \/ "fileId" \in DOMAIN data.json.o
     \/ LET payload == Get(data.json, "payload")
        IN  payload.t = "object" /\ "fileId" \in DOMAIN payload.o

\* the frame acknowledges the chunk a live upload job of c is waiting for
AcknowledgesAwaited(c, data) ==
  \E i \in 1..Len(c.uploadingFiles) :
    /\ c.uploadingFiles[i].responseWaitingTimeoutId.armed
    /\ AcknowledgesChunk(data, c.uploadingFiles[i].id,
                         c.uploadingFiles[i].responseWaitingTimeoutId.chunkNumber)

\* C24: an inbound frame of the form of an acknowledgement that does not name a live
\* upload job together with the chunk that job is waiting for (a duplicate, a stale
\* one, one of an unknown file) makes the client emit nothing and arm no timer.
NonMatchingAckIgnored ==
  [][(/\ theClient'.received.count = theClient.received.count + 1
      /\ AckShaped(theClient'.received.last)
      /\ ~AcknowledgesAwaited(theClient, theClient'.received.last))
       => /\ theClient'.emitted = theClient.emitted
          /\ \A i \in 1..Len(theClient'.uploadingFiles) :
               theClient'.uploadingFiles[i].responseWaitingTimeoutId.armed =>
                 \E j \in 1..Len(theClient.uploadingFiles) :
                   /\ theClient.uploadingFiles[j].id = theClient'.uploadingFiles[i].id
                   /\ theClient.uploadingFiles[j].responseWaitingTimeoutId =
                        theClient'.uploadingFiles[i].responseWaitingTimeoutId]_vars

(***************************************************************************)
(* Properties of the server's upload slots                                 *)
(***************************************************************************)
\* the chunk frames of socket s that handleBufferMessage handled without throwing
AcceptedChunks(s) ==
  {n \in 1..Len(frames[s]) :
     /\ frames[s][n].route = "buffer"
     /\ frames[s][n].status \in {"pending", "done"}
     /\ frames[s][n].outcome # Threw("handleBufferMessage")}

\* the chunk of frame n of socket s
ChunkAt(s, n) == ParsedChunk(frames[s][n].data.bytes)

\* a per-chunk response to chunk c: the messageId of c's sidecar, and a payload with
\* c's chunkNumber and fileId
IsChunkResponseTo(msg, c) ==
  /\ msg.kind = "string"
  /\ Get(msg.json, "messageId") = Get(c.payload, "messageId")
  /\ LET payload == Get(msg.json, "payload")
     IN  /\ payload.t = "object"
         /\ Get(payload, "chunkNumber") = JNum(c.chunkNumber)
         /\ Get(payload, "fileId") = JStr(c.fileId)

\* C26: for every chunk frame the server accepted on an authorized connection, the
\* completing one included, it has sent the sender exactly one per-chunk response:
\* messageId of the chunk's sidecar, payload with the chunk's chunkNumber and fileId.
EveryChunkAnswered ==
  \A s \in Sockets : \A n \in AcceptedChunks(s) :
    Cardinality({i \in 1..Len(sent[s]) :
                   /\ sent[s][i].cause = n
                   /\ IsChunkResponseTo(sent[s][i].msg, ChunkAt(s, n))}) = 1

\* the calls of onUploadMessage made for file fileId, as <<socket, index>>
UploadCalls(fileId) ==
  {c \in Sockets \X (1..MaxUploadFrames) :
     /\ c[2] <= Len(invoked[c[1]])
     /\ invoked[c[1]][c[2]].handler = "onUploadMessage"
     /\ ChunkAt(c[1], invoked[c[1]][c[2]].cause).fileId = fileId}

\* the responses sent under messageId = fileId
UploadResponses(fileId) ==
  {c \in Sockets \X (1..MaxUploadFrames) :
     /\ c[2] <= Len(sent[c[1]])
     /\ sent[c[1]][c[2]].msg.kind = "string"
     /\ Get(sent[c[1]][c[2]].msg.json, "messageId") = JStr(fileId)}

\* the file ids of the chunk frames the server accepted
UploadIds == UNION {{ChunkAt(s, n).fileId : n \in AcceptedChunks(s)} : s \in Sockets}

\* C27: onUploadMessage is invoked at most once for an upload and at most one
\* response with messageId = fileId is sent; once it is invoked the slot is deleted,
\* so that a chunk of the file delivered again does not invoke it again.
UploadedOnce ==
  \A fileId \in UploadIds :
    /\ Cardinality(UploadCalls(fileId)) <= 1
    /\ Cardinality(UploadResponses(fileId)) <= 1
    /\ UploadCalls(fileId) # {} => FindFile(uploadingFiles, fileId) = 0

\* the file ids of the slots in a list of uploading files
SlotIds(files) == {files[i].id : i \in 1..Len(files)}

\* this step handles a chunk frame of file fileId (handleBufferMessage up to its await)
HandlesChunkOf(fileId) ==
  \E s \in Sockets : \E n \in 1..Len(frames[s]) :
    /\ frames[s][n].route = "none"
    /\ frames'[s][n].route = "buffer"
    /\ ChunkAt(s, n).fileId = fileId

\* this step hands file fileId to onUploadMessage
HandsOver(fileId) ==
  \E s \in Sockets :
    /\ Len(invoked'[s]) = Len(invoked[s]) + 1
    /\ invoked'[s][Len(invoked'[s])].handler = "onUploadMessage"
    /\ ChunkAt(s, invoked'[s][Len(invoked'[s])].cause).fileId = fileId

\* this step is the callback of the timer armed on the slot of file fileId
TimesOutSlotOf(fileId) ==
  \E t \in timers \ timers' :
    /\ t.left = 0
    /\ t.file = uploadingFiles[FindFile(uploadingFiles, fileId)].uid

\* C28: a slot exists for a file exactly from the arrival of a chunk of the file until
\* the file is fully reassembled or its slot times out: a slot appears only in a step
\* that handles a chunk of its file, disappears only by its own timer or when its file
\* is handed to onUploadMessage, and does not outlive that hand-over.
SlotLivesFromChunkToCompletion ==
  [][\A fileId \in SlotIds(uploadingFiles) \cup SlotIds(uploadingFiles') :
       /\ fileId \notin SlotIds(uploadingFiles) => HandlesChunkOf(fileId)
       /\ fileId \notin SlotIds(uploadingFiles') =>
            TimesOutSlotOf(fileId) \/ HandsOver(fileId)
       /\ HandsOver(fileId) => fileId \notin SlotIds(uploadingFiles')]_vars

\* a chunk of the slot `uid` is being handled: onUploadMessage has not settled yet
InProgress(fs, uid) ==
  \E s \in Sockets : \E n \in 1..Len(fs[s]) :
    fs[s][n].status = "pending" /\ fs[s][n].file = uid

\* C29: every chunk restarts the slot's 15-s period and nothing else ends it: whenever
\* no chunk of a slot is being handled, exactly one timer is armed on the slot, and it
\* was armed with 15 s when the handling of a chunk ended; a slot is deleted only by
\* the callback of the timer armed on it, and that step sends no frame and invokes no
\* handler.
IdleSlotTimesOut ==
  [][/\ \A i \in 1..Len(uploadingFiles') :
          LET uid == uploadingFiles'[i].uid
              armed == {t \in timers' : t.file = uid}
          IN  /\ ~InProgress(frames', uid) => Cardinality(armed) = 1
              /\ \A t \in armed : t.id \notin {o.id : o \in timers} =>
                                  t.left = chunkWaitingTimeout
     /\ \A fileId \in SlotIds(uploadingFiles) \ SlotIds(uploadingFiles') :
          /\ TimesOutSlotOf(fileId)
          /\ sent' = sent
          /\ invoked' = invoked]_vars

(***************************************************************************)
(* Properties of the chunk frame's layout                                  *)
(***************************************************************************)
\* C30: a frame built by packChunk from a valid file id, a chunk number, the chunk's
\* bytes and a JSON sidecar is accepted by validateBufferMessage and parsed by the
\* server back to the same file id, chunk number, data size, data bytes and sidecar.
PackedChunkIsAcceptedAndParsedBack ==
  evaluated.fn = "packChunk" /\ evaluated.done =>
    /\ evaluated.result = Valid
    /\ evaluated.parsed.fileId = evaluated.fileId
    /\ evaluated.parsed.chunkNumber = evaluated.chunkNumber
    /\ evaluated.parsed.size = Len(evaluated.bufData)
    /\ evaluated.parsed.fileChunk = evaluated.bufData
    /\ evaluated.parsed.payload = JSONParse(evaluated.message)
    /\ evaluated.parsed.payload.t = "object"

(***************************************************************************)
(* Properties of the reassembled file                                      *)
(***************************************************************************)
\* the frames of socket s that arrived after the connection had been authorized
AfterAuthorization(s) ==
  {n \in 1..Len(frames[s]) :
     \E m \in 1..(n - 1) : /\ frames[s][m].handler = "onAuth"
                           /\ frames[s][m].outcome.kind = "returned"}

\* the chunk frames of file fileId that arrived on socket s once it was authorized
\* and that onmessage has dealt with
ChunkFramesOf(s, fileId) ==
  {n \in AfterAuthorization(s) :
     /\ frames[s][n].data.kind = "buffer"
     /\ Len(frames[s][n].data.bytes) >= dataOffset
     /\ frames[s][n].status # "queued"
     /\ ChunkAt(s, n).fileId = fileId}

\* the number of chunks the sidecar of chunk 0 declares; 0 while chunk 0 has not arrived
DeclaredChunks(s, fileId) ==
  LET first == {n \in ChunkFramesOf(s, fileId) : ChunkAt(s, n).chunkNumber = 0}
  IN  IF first = {} THEN 0
      ELSE Get(ChunkAt(s, CHOOSE n \in first : TRUE).payload, "chunks").n

\* the data of chunk k of the file, as it arrived
DataOfChunk(s, fileId, k) ==
  ChunkAt(s, CHOOSE n \in ChunkFramesOf(s, fileId) : ChunkAt(s, n).chunkNumber = k).fileChunk

RECURSIVE FileUpTo(_, _, _)
\* the bytes of chunks 0..k-1 of the file, each at its place in the file
FileUpTo(s, fileId, k) ==
  IF k = 0 THEN <<>>
  ELSE FileUpTo(s, fileId, k - 1) \o DataOfChunk(s, fileId, k - 1)

\* chunks 0..N-1 of the file have all arrived, N being the number declared
AllChunksArrived(s, fileId) ==
  /\ DeclaredChunks(s, fileId) > 0
  /\ \A k \in 0..(DeclaredChunks(s, fileId) - 1) :
       \E n \in ChunkFramesOf(s, fileId) : ChunkAt(s, n).chunkNumber = k

\* C25: once chunks 0..N-1 of an upload with declared chunks = N have all arrived, in
\* any order and with or without duplicates, the file has been handed to
\* onUploadMessage, and the buffer handed is the chunks' data one after the other: its
\* length is the sum of their sizes and each chunk's bytes are at their place.
ReassembledFileIsWhole ==
  \A s \in Sockets : \A fileId \in {ParsedChunk(d.bytes).fileId : d \in DataFrames} :
    AllChunksArrived(s, fileId) =>
      LET calls == {i \in 1..Len(invoked[s]) :
                      /\ invoked[s][i].handler = "onUploadMessage"
                      /\ ChunkAt(s, invoked[s][i].cause).fileId = fileId}
      IN  /\ calls # {}
          /\ \A i \in calls :
               invoked[s][i].arg.file = FileUpTo(s, fileId, DeclaredChunks(s, fileId))

(***************************************************************************)
(* Binary frames before the authorization                                  *)
(***************************************************************************)
\* onAuth has returned for a frame of connection s
EverAuthorized(s) ==
  \E m \in 1..Len(frames[s]) :
    frames[s][m].handler = "onAuth" /\ frames[s][m].outcome.kind = "returned"

\* frame n of connection s is a binary frame whose handling has ended on a
\* connection that was never authorized
BinaryBeforeAuthorization(s, n) ==
  /\ ~IsText(frames[s][n].data)
  /\ frames[s][n].status = "done"
  /\ ~EverAuthorized(s)

\* C31: every binary frame on a connection that has not been authorized, a
\* well-formed chunk frame too, makes the server call close(1003);
\* no upload slot is created and no handler is invoked for it.
UnauthorizedBinaryIsClosed ==
  \A s \in Sockets : \A n \in 1..Len(frames[s]) :
    BinaryBeforeAuthorization(s, n) =>
      /\ \E i \in 1..Len(closeCalls[s]) :
           closeCalls[s][i].cause = n /\ closeCalls[s][i].code = 1003
      /\ \A i \in 1..Len(uploadingFiles) : uploadingFiles[i].uid # <<s, n>>
      /\ ForFrame(invoked[s], n) = <<>>

(***************************************************************************)
(* Frames of one connection while an application call is awaited           *)
(***************************************************************************)
\* the call of onAuth, onMessage or onUploadMessage made for frame n of
\* connection s has not returned
CallPending(s, n) == frames[s][n].status = "pending"

\* C32: on one connection the server does not begin to process the next frame while
\* a call of onAuth, onMessage or onUploadMessage made for an earlier frame has not
\* returned: the step that takes a frame in finds no call of the connection pending.
FramesAreSerialized ==
  [][\A s \in Sockets :
       Receives(s) => \A n \in 1..Len(frames[s]) : ~CallPending(s, n)]_vars

(***************************************************************************)
(* The authorization timer after a frame and after the close               *)
(***************************************************************************)
\* the close calls of connection s made by the msgWaiter callback
AuthorizationRequiredCalls(s) ==
  {i \in 1..Len(closeCalls[s]) :
     closeCalls[s][i].code = 1013 /\ closeCalls[s][i].reason = "Authorization required"}

\* C33: the authorization timer is cancelled by the first frame and by the close of
\* the connection: close(1013, "Authorization required") is never called on a
\* connection that has received a frame or that has closed.
WaiterIsCancelled ==
  \A s \in Sockets : \A i \in AuthorizationRequiredCalls(s) :
    /\ closeCalls[s][i].fresh
    /\ closeCalls[s][i].state # "CLOSED"

(***************************************************************************)
(* Application calls that complete after the close of their connection     *)
(***************************************************************************)
\* C34: when a call of onAuth, onMessage or onUploadMessage completes after its
\* connection has closed, its result is discarded: no Client record of the closed
\* connection is added to the registry and nothing is sent on the connection.
ResultDiscardedAfterClose ==
  [][\A s \in Sockets :
       ready[s] = "CLOSED" =>
         /\ Len(RecordsOf(clients', s)) <= Len(RecordsOf(clients, s))
         /\ sent'[s] = sent[s]]_vars

(***************************************************************************)
(* Upload slots and their timers after the close of a connection           *)
(***************************************************************************)
\* the slots created by chunks received on connection s (a slot's uid names the
\* frame that created it)
SlotsOf(s) == {i \in 1..Len(uploadingFiles) : uploadingFiles[i].uid[1] = s}

\* the idle timers armed on slots created by chunks of connection s
TimersOf(s) == {t \in timers : t.file[1] = s}

\* C35: after a connection has closed the server holds no upload slot created by
\* chunks received on that connection, and no idle timer of such a slot is armed.
CloseDropsSlots ==
  \A s \in Sockets : ready[s] = "CLOSED" => SlotsOf(s) = {} /\ TimersOf(s) = {}

OneRecordPerConnection ==
  \A s \in Sockets : Len(RecordsOf(clients, s)) <= 1

(***************************************************************************)
(* Connections that never complete the authorization                       *)
(***************************************************************************)
\* the server has called close on connection s, or the connection has ended
ClosedByServer(s) == closeCalls[s] # <<>> \/ ready[s] = "CLOSED"

\* C38: every connection that never completes the authorization is eventually
\* closed by the server, also one whose only frames failed the format validation
\* and were answered with an error message.
UnauthorizedIsEventuallyClosed ==
  \A s \in Sockets : (ready[s] = "OPEN") ~> (EverAuthorized(s) \/ ClosedByServer(s))

(***************************************************************************)
(* What the idle timer of an upload removes                                *)
(***************************************************************************)
\* this step is the callback of upload timer t
TimerFires(t) == t \in timers /\ t.left = 0 /\ timers' = timers \ {t} /\ frames' = frames

\* the file of the upload whose chunk armed timer t
FileOfTimer(t) == ChunkAt(t.id[1], t.id[2]).fileId

\* the slots of the files other than fileId in a list of uploading files
OtherSlots(files, fileId) == SelectSeq(files, LAMBDA f : f.id # fileId)

\* C39: when the idle timer of an upload fires, at most the slot of the upload's own
\* file is removed; the slots of all other files stay as they are, also when the
\* timer's own slot is no longer in the list.
TimerRemovesOwnSlotOnly ==
  [][\A t \in timers :
       TimerFires(t) =>
         OtherSlots(uploadingFiles', FileOfTimer(t)) = OtherSlots(uploadingFiles, FileOfTimer(t))]_vars

(***************************************************************************)
(* Uploads of different connections                                        *)
(***************************************************************************)
\* this step handles chunk frame n of connection s (handleBufferMessage up to its
\* await or to its end)
HandlesChunkFrom(s, n) ==
  /\ n \in 1..Len(frames[s])
  /\ frames[s][n].route = "none"
  /\ frames'[s][n].route = "buffer"

\* the buffer, the chunk bitmap, the type and the payload of a slot
Assembled(slot) ==
  [file |-> slot.file, uploadedChunks |-> slot.uploadedChunks,
   type |-> slot.type, payload |-> slot.payload]

\* the chunk numbers of file fileId among the valid chunk frames received from
\* connection s up to frame n
ChunksSentBy(s, fileId, n) ==
  {ChunkAt(s, m).chunkNumber :
     m \in {k \in 1..n : /\ frames[s][k].data.kind = "buffer"
                         /\ Validate(frames[s][k].data).ok
                         /\ ChunkAt(s, k).fileId = fileId}}

\* C40: chunks received on one connection never change the buffer, the chunk
\* bitmap, the type or the payload of an upload assembled from the chunks of another
\* connection, also when the fileId is the same; the file handed to onUploadMessage
\* for a connection is made of chunks of that connection only.
UploadsAreIsolated ==
  [][\A s \in Sockets : \A n \in 1..Len(frames[s]) :
       HandlesChunkFrom(s, n) =>
         /\ \A i \in 1..Len(uploadingFiles) :
              uploadingFiles[i].uid[1] # s =>
                /\ i <= Len(uploadingFiles')
                /\ Assembled(uploadingFiles'[i]) = Assembled(uploadingFiles[i])
         /\ frames'[s][n].handler = "onUploadMessage" =>
              \A i \in 1..Len(uploadingFiles') :
                uploadingFiles'[i].uid = frames'[s][n].file =>
                  uploadingFiles'[i].uploadedChunks
                    \subseteq ChunksSentBy(s, uploadingFiles'[i].id, n)]_vars

=============================================================================
